---- MODULE Spec2Model ----
(***************************************************************************)
(* A model of astro (matthewdargan/astro): the per-period driver of main,  *)
(* the trajectory sampler, the event search, the occultation refinement    *)
(* and the event sink.  Two variants of the source are modelled side by    *)
(* side: "astro" is src/astro.go and "part000" is src/unnamed/part_000.    *)
(*                                                                         *)
(* Numbers.  The program computes in float64; the model computes in exact  *)
(* integer and rational arithmetic:                                        *)
(*   - an angle on the sky (ra, semi2, dist) is an integer number of arc   *)
(*     minutes, so pi is 10800;                                            *)
(*   - an elevation is an integer number of 1/1000 degree;                 *)
(*   - a magnitude field is an integer number of 1/10000;                  *)
(*   - a time offset inside a sampling window (evt.tim, occ.t1..t5, the    *)
(*     results of rise and set) is a rational <<n, d>> of sample steps;    *)
(*   - an instant (eday, the argument of setime) is an integer number of   *)
(*     1/120 sample step (one minute when the window is one day).          *)
(* Every sample of the model lies on the celestial equator (decl2 = 0),    *)
(* where the separation computed by dist is the right-ascension            *)
(* difference folded into [0, pi].                                         *)
(***************************************************************************)
EXTENDS Integers, Sequences, FiniteSets, TLC

\* ---------------------------------------------------------------- constants
npts == 12
nevents == 100
per == 1
PI == 10800
secondsPerDay == 86400
\* the growth of delta-T in a day, in microseconds
meanSolarDaySeconds == 1704

\* n := 2880 * per / npts, the number of one-minute steps in two sample steps
nsub == (2880 * per) \div npts
\* one sample step (deld) in instants
StepT == nsub \div 2
\* the common denominator of the interpolated points of setpt: x = k/StepT,
\* y = x(x-1), del2 = pinorm(a)/2
SCALE == 2 * StepT * StepT
\* one sample step in seconds
StepSec == (secondsPerDay * per) \div npts

\* the variants of the source
Variants == {"astro", "part000"}

\* ------------------------------------------------------------- bounds
MaxPeriods == 3
MaxScan == 8192

\* ------------------------------------------------------------- state
VARIABLES
  variant,   \* which source file runs: "astro" or "part000"
  world,     \* the sky: what the body models compute for an instant
  pflag,     \* -p
  eclipse,   \* -e obj1 obj2 given
  eobjs,     \* the two objects of -e
  mflag,     \* -m
  oflag,     \* -o
  nperiods,  \* -c
  interval,  \* -C, in sample steps
  pc,        \* where main is
  period,    \* the periods completed
  day,       \* main's day, in sample steps
  objs,      \* objs[b].point, the sample sequence of each body
  ostar,     \* ostar.point
  scr,       \* the scratch globals ra, decl2, semi2, az, el, mag, semi
  eday,      \* the frame state: the instant of the last setime
  seday, salph,  \* the Sun cache of fsun
  meday, mhp,    \* the Moon cache of moon
  occ,       \* the occultation record
  events,    \* the event buffer
  emitted,   \* the lines of the last flush, in order
  out,       \* the lines the sampling loop of the period printed, in order
  err,       \* the error main got from search, "nil" if none
  stat,      \* bookkeeping of the last pass (not program state)
  arg, res   \* the input and the result of a function applied on its own

vars ==
  <<variant, world, pflag, eclipse, eobjs, mflag, oflag, nperiods, interval, pc,
    period, day, objs, ostar, scr, eday, seday, salph, meday, mhp, occ, events,
    emitted, out, err, stat, arg, res>>

\* ------------------------------------------------------------- arithmetic
Abs(x) == IF x < 0 THEN -x ELSE x

RECURSIVE GCD(_, _)
GCD(a, b) == IF b = 0 THEN a ELSE GCD(b, a % b)

\* the rational n/d in lowest terms with a positive denominator
Rat(n, d) ==
  LET s == IF d < 0 THEN -1 ELSE 1
      g == GCD(Abs(n), Abs(d))
  IN  <<(s * n) \div g, (s * d) \div g>>

RInt(i) == <<i, 1>>
RFloor(q) == q[1] \div q[2]
\* Go's int(t): truncation toward zero
RTrunc(q) == IF q[1] >= 0 THEN q[1] \div q[2] ELSE -((-q[1]) \div q[2])
\* -1, 0 or 1 as a < b, a = b, a > b (integer parts first, to stay in range)
RCmp(a, b) ==
  LET fa == RFloor(a)
      fb == RFloor(b)
      ra == a[1] - fa * a[2]
      rb == b[1] - fb * b[2]
  IN  IF fa < fb THEN -1
      ELSE IF fa > fb THEN 1
      ELSE IF ra * b[2] < rb * a[2] THEN -1
      ELSE IF ra * b[2] > rb * a[2] THEN 1
      ELSE 0
RLess(a, b) == RCmp(a, b) < 0
RLeq(a, b) == RCmp(a, b) <= 0
RAddInt(q, k) == <<q[1] + k * q[2], q[2]>>

\* ------------------------------------------------------------- samples
\* obj1: one position sample
Obj1(r, s, e, m) == [ra |-> r, decl2 |-> 0, semi2 |-> s, az |-> 0, el |-> e, mag |-> m]
ZeroObj1 == Obj1(0, 0, 0, 0)
\* the indices of obj2.point: [npts + 2]obj1
Slots == 0..(npts + 1)
ZeroPoints == [i \in Slots |-> ZeroObj1]

\* objs, in the order of the source
BodyNames ==
  <<"sun", "moon", "shadow", "mercury", "venus", "mars", "jupiter",
    "saturn", "uranus", "neptune", "pluto", "comet">>
Bodies == {BodyNames[i] : i \in 1..Len(BodyNames)}

\* ------------------------------------------------------------- angles
\* pinorm with pi = m: while a < -m add 2m, while a > m subtract 2m
RECURSIVE pinormM(_, _)
pinormM(a, m) ==
  IF a < -m THEN pinormM(a + 2 * m, m)
  ELSE IF a > m THEN pinormM(a - 2 * m, m)
  ELSE a

\* math.Mod(x, y) for y > 0: the remainder of x/y with the sign of x
Mod(x, y) == IF x >= 0 THEN x % y ELSE -((-x) % y)

\* part_000: math.Mod(a+math.Pi, 2*math.Pi) - math.Pi
piNorm(a) == Mod(a + PI, 2 * PI) - PI

\* the normalisation of the variant that runs
pinorm(a) == IF variant = "astro" THEN pinormM(a, PI) ELSE piNorm(a)

\* dist for two points of the equator whose right ascensions differ by dra
\* (pi = m): acos(cos(dra)), the difference folded into [0, m]
distM(dra, m) ==
  LET r == dra % (2 * m)
  IN  IF r > m THEN 2 * m - r ELSE r

dist(o1, o2) == distM(o1.ra - o2.ra, PI)

\* ------------------------------------------------------------- crossings
NotFound == <<-1, 1>>

\* rise with e1 < el for e1 <= el
RECURSIVE riseFromStrict(_, _, _)
riseFromStrict(pt, el, i) ==
  IF i > npts + 1 THEN NotFound
  ELSE LET e1 == pt[i - 1].el
           e2 == pt[i].el
       IN  IF e1 < el /\ e2 > el
           THEN Rat((i - 1) * (e2 - e1) + (el - e1), e2 - e1)
           ELSE riseFromStrict(pt, el, i + 1)

RECURSIVE riseFrom(_, _, _)
riseFrom(pt, el, i) ==
  IF i > npts + 1 THEN NotFound
  ELSE LET e1 == pt[i - 1].el
           e2 == pt[i].el
       IN  IF e1 <= el /\ e2 > el
           THEN Rat((i - 1) * (e2 - e1) + (el - e1), e2 - e1)
           ELSE riseFrom(pt, el, i + 1)

rise(pt, el) == riseFrom(pt, el, 1)

RECURSIVE setFrom(_, _, _)
setFrom(pt, el, i) ==
  IF i > npts + 1 THEN NotFound
  ELSE LET e1 == pt[i - 1].el
           e2 == pt[i].el
       IN  IF e1 > el /\ e2 <= el
           THEN Rat((i - 1) * (e2 - e1) + (el - e1), e2 - e1)
           ELSE setFrom(pt, el, i + 1)

set(pt, el) == setFrom(pt, el, 1)

\* betcross: the Sun's mag field (its longitude) crossing b upward
RECURSIVE betcrossFrom(_, _, _)
betcrossFrom(pt, b, i) ==
  IF i > npts + 1 THEN NotFound
  ELSE LET d1 == pt[i - 1].mag
           d2 == pt[i].mag
       IN  IF b >= d1 /\ b < d2
           THEN Rat(i * (d1 - d2) - (b - d2), d1 - d2)
           ELSE betcrossFrom(pt, b, i + 1)

betcross(sun, b) == betcrossFrom(sun, b, 1)

\* solstice(n): the Sun's right ascension crossing n*pi/2 - pi (pi for n = 0,
\* after shifting the right ascension by pi)
solsticeRaPlain(sun, n, i) == sun[i].ra

solsticeRa(sun, n, i) ==
  IF n = 0
  THEN LET d == sun[i].ra - PI IN IF d < -PI THEN d + 2 * PI ELSE d
  ELSE sun[i].ra

RECURSIVE solsticeFrom(_, _, _)
solsticeFrom(sun, n, i) ==
  IF i > npts THEN NotFound
  ELSE LET d3 == IF n = 0 THEN 0 ELSE (n * PI) \div 2 - PI
           d1 == IF i = 0 THEN 0 ELSE solsticeRa(sun, n, i - 1)
           d2 == solsticeRa(sun, n, i)
       IN  IF i >= 1 /\ d3 >= d1 /\ d3 < d2
           THEN Rat(i * (d1 - d2) - (d3 - d2), d1 - d2)
           ELSE solsticeFrom(sun, n, i + 1)

solstice(sun, n) == solsticeFrom(sun, n, 0)

\* melong: the first sample triple at which the elongation from the Sun is
\* a local maximum
RECURSIVE melongFrom(_, _, _)
melongFrom(pt, sun, i) ==
  IF i > npts + 1 THEN -1
  ELSE LET d1 == dist(pt[i - 2], sun[i - 2])
           d2 == dist(pt[i - 1], sun[i - 1])
           d3 == dist(pt[i], sun[i])
       IN  IF d2 >= d1 /\ d2 >= d3 THEN i - 2 ELSE melongFrom(pt, sun, i + 1)

melong(pt, sun) == melongFrom(pt, sun, 2)

\* sunel(t): the Sun's elevation interpolated at t, or -90 degrees outside
\* the window
sunel(sun, t) ==
  LET i == RTrunc(t)
  IN  IF i < 0 \/ i > npts THEN RInt(-90000)
      ELSE Rat(sun[i].el * t[2] + (t[1] - i * t[2]) * (sun[i + 1].el - sun[i].el),
               t[2])

\* ------------------------------------------------------------- the sky
\* What a body model computes is a function of the instant alone.  A world
\* gives, for each body b, world.body[b]:
\*   ra   = pinorm(ra0 + rv*T + wob*Tent(T))      (arc minutes)
\*   el   = amp - slope*|((T + phase) mod one day) - half a day|
\*   mag  = (m0 + mv*T), modulo mmod when mmod > 0
\*   semi = the semidiameter
\* and the catalog stars near the Moon's path.
DayT == npts * StepT

Tent(T) ==
  LET r == T % StepT
  IN  IF 2 * r > StepT THEN StepT - r ELSE r

Truth(p, T) ==
  [ra   |-> pinorm(p.ra0 + p.rv * T + p.wob * Tent(T)),
   el   |-> p.amp - p.slope * Abs(((T + p.phase) % DayT) - (DayT \div 2)),
   mag  |-> IF p.mmod > 0 THEN (p.m0 + p.mv * T) % p.mmod ELSE p.m0 + p.mv * T,
   semi |-> p.semi]

\* ------------------------------------------------------------- body models
\* The globals the body models and occult read and write, as one record.
Globals ==
  [scr |-> scr, eday |-> eday, seday |-> seday, salph |-> salph,
   meday |-> meday, mhp |-> mhp, occ |-> occ, ostar |-> ostar]

\* the constants sun() leaves in the scratch globals semi and mag
SunSemi == 16
SunMag == -265000
\* 969.85/srad seconds of arc, in arc minutes
ShadSun == 16

\* setime without its calls of sun: the semidiameter and the magnitude stay
\* those of the body computed last
setimeNoSun(g, d) ==
  [g EXCEPT !.eday = d]

\* setime(d): the frame state is set for the instant d; setime calls sun(),
\* which leaves semi and mag in the scratch globals
setime(g, d) ==
  [g EXCEPT !.eday = d, !.scr.semi = SunSemi, !.scr.mag = SunMag]

\* fsun: helio and geo on the Sun's vector of the frame; semi is the scratch
\* value found; mag is set to the longitude lmb2
fsun(g) ==
  LET t == Truth(world.body["sun"], g.eday)
  IN  [g EXCEPT !.scr = [ra |-> t.ra, decl2 |-> 0, semi2 |-> g.scr.semi, az |-> 0,
                         el |-> t.el, mag |-> t.mag, semi |-> g.scr.semi],
                !.seday = g.eday,
                !.salph = t.ra]

MoonHp(T) ==
  world.body["moon"].hp + world.body["moon"].hpv * ((T \div (4 * StepT)) % 2)

moon(g) ==
  LET t == Truth(world.body["moon"], g.eday)
  IN  [g EXCEPT !.scr = [ra |-> t.ra, decl2 |-> 0, semi2 |-> t.semi, az |-> 0,
                         el |-> t.el, mag |-> t.mag, semi |-> t.semi],
                !.meday = g.eday,
                !.mhp = MoonHp(g.eday)]

\* shad: opposite the cached Sun, sized from the cached Moon parallax; the
\* caches are refreshed when they are not of the frame's instant; mag is
\* left as found
shadAt(g) ==
  LET semi == (10183 * g.mhp) \div 10000 - ShadSun
  IN  [g EXCEPT !.scr = [ra |-> pinorm((g.salph + PI) % (2 * PI)), decl2 |-> 0,
                         semi2 |-> semi, az |-> 0,
                         el |-> Truth(world.body["shadow"], g.eday).el,
                         mag |-> g.scr.mag, semi |-> semi]]

\* if meday != eday { moon() }
shadMoon(g) == shadAt(IF g.meday # g.eday THEN moon(g) ELSE g)

\* shad without its test of seday
shadNoSun(g) == shadMoon(g)

shad(g) == shadMoon(IF g.seday # g.eday THEN fsun(g) ELSE g)

\* merc, venus, mars, jup, sat, uran, nept, plut, comet: every scratch global
\* is set from the body's own orbit
planet(b, g) ==
  LET t == Truth(world.body[b], g.eday)
  IN  [g EXCEPT !.scr = [ra |-> t.ra, decl2 |-> 0, semi2 |-> t.semi, az |-> 0,
                         el |-> t.el, mag |-> t.mag, semi |-> t.semi]]

\* star: the scratch globals are copied from ostar.point[0]
star(g) ==
  LET p == g.ostar[0]
  IN  [g EXCEPT !.scr = [ra |-> p.ra, decl2 |-> p.decl2, semi2 |-> p.semi2,
                         az |-> p.az, el |-> p.el, mag |-> p.mag,
                         semi |-> g.scr.semi]]

\* obj2.f, by the body's name
bodyf(b, g) ==
  CASE b = "sun" -> fsun(g)
    [] b = "moon" -> moon(g)
    [] b = "shadow" -> shad(g)
    [] b = "Star" -> star(g)
    [] OTHER -> planet(b, g)

\* setobj: the sample stored from the scratch globals
setobj(g) ==
  [ra |-> g.scr.ra, decl2 |-> g.scr.decl2, semi2 |-> g.scr.semi2,
   az |-> g.scr.az, el |-> g.scr.el, mag |-> g.scr.mag]

\* ------------------------------------------------------------- occult
\* the sentinel of an absent contact
Absent == <<-100, 1>>
\* dx /= 60: the fine grid has 60 points to a minute
FineDiv == 60
\* the 50 seconds of arc allowed by the medium pass, on the scale of setpt
Margin50 == (SCALE * 50) \div 60

\* set3pt: del0, del1 and (in dd2) twice del2 of the samples i, i+1, i+2
set3pt(pt, i) ==
  LET p1 == pt[i]
      p2 == pt[i + 1]
      p3 == pt[i + 2]
  IN  [del0 |-> [ra |-> p1.ra, decl2 |-> p1.decl2, semi2 |-> p1.semi2, el |-> p1.el],
       del1 |-> [ra |-> pinorm(p2.ra - p1.ra),
                 decl2 |-> pinorm(p2.decl2 - p1.decl2),
                 semi2 |-> p2.semi2 - p1.semi2,
                 el |-> p2.el - p1.el],
       dd2  |-> [ra |-> pinorm(p1.ra + p3.ra - 2 * p2.ra),
                 decl2 |-> pinorm(p1.decl2 + p3.decl2 - 2 * p2.decl2),
                 semi2 |-> p1.semi2 + p3.semi2 - 2 * p2.semi2,
                 el |-> p1.el + p3.el - 2 * p2.el]]

\* del0 + x*del1 + x(x-1)*del2 at x = k/StepT, times SCALE
poly(a0, a1, a2, k) == SCALE * a0 + 2 * StepT * k * a1 + k * (k - StepT) * a2

\* setpt: the interpolated point act at x = k/StepT, times SCALE
setpt(oc, k) ==
  [ra    |-> poly(oc.del0.ra, oc.del1.ra, oc.dd2.ra, k),
   decl2 |-> poly(oc.del0.decl2, oc.del1.decl2, oc.dd2.decl2, k),
   semi2 |-> poly(oc.del0.semi2, oc.del1.semi2, oc.dd2.semi2, k),
   el    |-> poly(oc.del0.el, oc.del1.el, oc.dd2.el, k)]

\* dist(occ1.act, occ2.act) at x = k/StepT, times SCALE
sep(oc1, oc2, k) == distM(setpt(oc1, k).ra - setpt(oc2, k).ra, SCALE * PI)

\* the coarse pass: the first i in 2..npts+1 with d2 <= d1 and d2 <= d3, or 0
RECURSIVE coarse(_, _, _)
coarse(p1, p2, i) ==
  IF i > npts + 1 THEN 0
  ELSE LET d1 == dist(p1[i - 2], p2[i - 2])
           d2 == dist(p1[i - 1], p2[i - 1])
           d3 == dist(p1[i], p2[i])
       IN  IF d2 <= d1 /\ d2 <= d3 THEN i ELSE coarse(p1, p2, i + 1)

\* the test of the medium and of the fine pass at the grid point k:
\* d2 <= d1 and d2 <= d3 over the grid points k-2, k-1, k
isLow(d1, d2, d3) == d2 <= d1 /\ d2 <= d3

isMin(oc1, oc2, k) ==
  isLow(sep(oc1, oc2, k - 2), sep(oc1, oc2, k - 1), sep(oc1, oc2, k))

\* the scan of the medium and of the fine pass: the first k in lo..hi that
\* passes the test, or 0 (the first half of the range is searched, then the
\* second)
RECURSIVE minscan(_, _, _, _)
minscan(oc1, oc2, lo, hi) ==
  IF lo > hi THEN 0
  ELSE IF lo = hi THEN (IF isMin(oc1, oc2, lo) THEN lo ELSE 0)
  ELSE LET k == minscan(oc1, oc2, lo, (lo + hi) \div 2)
       IN  IF k # 0 THEN k ELSE minscan(oc1, oc2, (lo + hi) \div 2 + 1, hi)

\* di + (i - .5)*dx, with di = tdi/StepT and dx = 1/(FineDiv*StepT)
contactTime(tdi, i) == Rat(2 * FineDiv * tdi + 2 * i - 1, 2 * FineDiv * StepT)

\* the tests of one turn of a contact loop at the grid point i, where the
\* separation is d2 and the elevation e
scanMark(c, s, i, d2, e) ==
  LET inner == s.d2 <= c.d3 /\ d2 > c.d3
      outer == d2 > c.d4 /\ s.d2 <= c.d4
  IN  [i |-> i, d2 |-> d2,
       ta |-> IF inner THEN contactTime(c.tdi, i) ELSE s.ta,
       ea |-> IF inner THEN e ELSE s.ea,
       fa |-> s.fa \/ inner,
       tb |-> IF outer THEN contactTime(c.tdi, i) ELSE s.tb,
       eb |-> IF outer THEN e ELSE s.eb,
       fb |-> s.fb \/ outer,
       done |-> d2 > c.d4]

\* one turn of a contact loop after its first: c.dir is +1 (the loop of t4
\* and t5) or -1 (the loop of t2 and t1); ta is t4 or t2, tb is t5 or t1
scanStep(c, s) ==
  scanMark(c, s, s.i + c.dir, sep(c.oc1, c.oc2, s.i + c.dir),
           setpt(c.oc1, s.i + c.dir).el)

\* at most n turns of a contact loop, stopping at its break
RECURSIVE scan(_, _, _)
scan(c, s, n) ==
  IF n <= 0 \/ s.done THEN s
  ELSE IF n = 1 THEN scanStep(c, s)
  ELSE scan(c, scan(c, s, n \div 2), n - (n \div 2))

\* the number of grid points of the fine pass
FinePts == 241
NoContact == [f1 |-> FALSE, f2 |-> FALSE, f3 |-> FALSE, f4 |-> FALSE, f5 |-> FALSE]

\* what occult returns: the error, whether a contact loop ran past MaxScan
\* turns, the globals left, and (bookkeeping) which contact assignments ran
\* and how far the refinement went
OccResult(e, h, g, f, st) == [err |-> e, hang |-> h, g |-> g, found |-> f, stage |-> st]

\* setobj(&xo1.point[j]) after o1.f(), setobj(&xo2.point[j]) after o2.f()
resampleStore(a, j, g1, g2) ==
  [g |-> g2,
   xo1 |-> [a.xo1 EXCEPT ![j] = setobj(g1)],
   xo2 |-> [a.xo2 EXCEPT ![j] = setobj(g2)]]

resampleSecond(n2, a, j, g1) == resampleStore(a, j, g1, bodyf(n2, g1))

\* a turn of the re-sampling loop without its call of setime
resampleStale(n1, n2, a, T, j) == resampleSecond(n2, a, j, bodyf(n1, a.g))

\* one turn of the re-sampling loop of the fine pass, at the instant T:
\* setime, o1.f, setobj, o2.f, setobj
resample(n1, n2, a, T, j) == resampleSecond(n2, a, j, bodyf(n1, setime(a.g, T)))

\* the re-sampling loop: the turns j..2, two instants apart
RECURSIVE resampleLoop(_, _, _, _, _)
resampleLoop(n1, n2, a, T, j) ==
  IF j > 2 THEN a
  ELSE resampleLoop(n1, n2, resample(n1, n2, a, T, j), T + 2, j + 1)

\* the two contact loops from the minimum i1 of the fine pass
\* the contacts with what the backward loop found stored the other way round
contactsSwapped(g, tdi, i1, e3, fw, bw) ==
  OccResult("nil", ~fw.done \/ ~bw.done,
            [g EXCEPT
               !.occ = [t1 |-> bw.ta, e1 |-> bw.ea, t2 |-> bw.tb, e2 |-> bw.eb,
                        t3 |-> Rat(FineDiv * tdi + i1, FineDiv * StepT),
                        e3 |-> e3,
                        t4 |-> fw.ta, e4 |-> fw.ea, t5 |-> fw.tb, e5 |-> fw.eb]],
            [f1 |-> bw.fa, f2 |-> bw.fb, f3 |-> TRUE, f4 |-> fw.fa, f5 |-> fw.fb],
            "contact")

contactsOf(g, tdi, i1, e3, fw, bw) ==
  OccResult("nil", ~fw.done \/ ~bw.done,
            [g EXCEPT
               !.occ = [t1 |-> bw.tb, e1 |-> bw.eb, t2 |-> bw.ta, e2 |-> bw.ea,
                        t3 |-> Rat(FineDiv * tdi + i1, FineDiv * StepT),
                        e3 |-> e3,
                        t4 |-> fw.ta, e4 |-> fw.ea, t5 |-> fw.tb, e5 |-> fw.eb]],
            [f1 |-> bw.fb, f2 |-> bw.fa, f3 |-> TRUE, f4 |-> fw.fa, f5 |-> fw.fb],
            "contact")

contactLoops(g, tdi, i1, e3, c, s0) ==
  contactsOf(g, tdi, i1, e3,
             scan(c, [s0 EXCEPT !.ea = g.occ.e4, !.eb = g.occ.e5], MaxScan),
             scan([c EXCEPT !.dir = -1],
                  [s0 EXCEPT !.ea = g.occ.e2, !.eb = g.occ.e1], MaxScan))

\* after the fine pass found its minimum: d2 against the sum of the
\* semidiameters, then the contact loops
contacts(g, tdi, f1, f2, i1, act1, act2, dmin) ==
  IF dmin > act1.semi2 + act2.semi2
  THEN OccResult("nil", FALSE, g, NoContact, "miss")
  ELSE contactLoops(g, tdi, i1, act1.el,
                    [oc1 |-> f1, oc2 |-> f2, tdi |-> tdi, dir |-> 1,
                     d3 |-> Abs(act1.semi2 - act2.semi2),
                     d4 |-> act1.semi2 + act2.semi2],
                    [i |-> i1, d2 |-> dmin, ta |-> Absent, ea |-> 0, fa |-> FALSE,
                     tb |-> Absent, eb |-> 0, fb |-> FALSE, done |-> FALSE])

\* the fine pass returning nil where it finds no minimum
fineMinQuiet(g, tdi, f1, f2, kf) ==
  IF kf = 0
  THEN OccResult("nil", FALSE, g, NoContact, "bad 2")
  ELSE contacts(g, tdi, f1, f2, kf - 1, setpt(f1, kf), setpt(f2, kf),
                sep(f1, f2, kf - 1))

\* the end of the fine pass: kf is the grid point where its loop broke, or 0
fineMin(g, tdi, f1, f2, kf) ==
  IF kf = 0
  THEN OccResult("bad 2", FALSE, g, NoContact, "bad 2")
  ELSE contacts(g, tdi, f1, f2, kf - 1, setpt(f1, kf), setpt(f2, kf),
                sep(f1, f2, kf - 1))

finePass(g, tdi, f1, f2) == fineMin(g, tdi, f1, f2, minscan(f1, f2, 2, FinePts - 1))

fineFrom(tdi, a) == finePass(a.g, tdi, set3pt(a.xo1, 0), set3pt(a.xo2, 0))

\* the fine pass and the two contact loops; tdi is di in instants
occultFine(o1, o2, g, dy, tdi) ==
  fineFrom(tdi, resampleLoop(o1.name, o2.name,
                             [g |-> g, xo1 |-> ZeroPoints, xo2 |-> ZeroPoints],
                             StepT * dy + tdi, 0))

\* the end of the medium pass: im is the grid point where its loop broke, or 0
mediumMin(o1, o2, g, dy, i, m1, m2, im) ==
  IF im = 0
  THEN OccResult("bad 1", FALSE, g, NoContact, "bad 1")
  ELSE IF sep(m1, m2, im - 1) > setpt(m1, im).semi2 + setpt(m2, im).semi2 + Margin50
  THEN OccResult("nil", FALSE, g, NoContact, "far")
  ELSE occultFine(o1, o2, g, dy, StepT * (i - 2) + im - 3)

\* the medium pass with a loop that stops a quarter of the way
mediumPassShort(o1, o2, g, dy, i, m1, m2) ==
  mediumMin(o1, o2, g, dy, i, m1, m2, minscan(m1, m2, 2, StepT \div 2))

mediumPass(o1, o2, g, dy, i, m1, m2) ==
  mediumMin(o1, o2, g, dy, i, m1, m2, minscan(m1, m2, 2, nsub))

\* after the coarse pass: i is the sample where its loop broke, or 0
occultFrom(o1, o2, g, dy, i) ==
  IF i = 0
  THEN OccResult("nil", FALSE, g, NoContact, "none")
  ELSE mediumPass(o1, o2, g, dy, i, set3pt(o1.point, i - 2), set3pt(o2.point, i - 2))

\* occult without the five assignments of -100 it begins with
occultKeep(o1, o2, g0, dy) ==
  occultFrom(o1, o2, g0, dy, coarse(o1.point, o2.point, 2))

\* occult(o1, o2): o1 and o2 are [name, point]; g0 is the globals found, dy
\* the global day
occult(o1, o2, g0, dy) ==
  occultFrom(o1, o2,
             [g0 EXCEPT !.occ.t1 = Absent, !.occ.t2 = Absent, !.occ.t3 = Absent,
                        !.occ.t4 = Absent, !.occ.t5 = Absent],
             dy, coarse(o1.point, o2.point, 2))

\* ------------------------------------------------------------- event sink
\* evt: s is the message (a kind and a name), tim the time offset in sample
\* steps, flag the set of flags
Evt(kind, name, t, fl) == [s |-> <<kind, name>>, tim |-> t, flag |-> fl]
Zero == <<0, 1>>

\* the elevation thresholds of event, in 1/1000 degree
DarkEl == -12000
LightEl == 0

\* event without its test of the light flag
eventNoLight(evs, sun, e) ==
  IF "dark" \in e.flag /\ RLess(RInt(DarkEl), sunel(sun, e.tim))
  THEN [events |-> evs, err |-> "nil"]
  ELSE IF Len(evs) >= nevents
  THEN [events |-> evs, err |-> "too many events"]
  ELSE [events |-> Append(evs, e), err |-> "nil"]

\* event without its test of the length of the buffer
eventNoCap(evs, sun, e) ==
  IF "dark" \in e.flag /\ RLess(RInt(DarkEl), sunel(sun, e.tim))
  THEN [events |-> evs, err |-> "nil"]
  ELSE IF "light" \in e.flag /\ RLess(sunel(sun, e.tim), RInt(LightEl))
  THEN [events |-> evs, err |-> "nil"]
  ELSE [events |-> Append(evs, e), err |-> "nil"]

\* event(e) on the buffer evs with the Sun samples sun: the buffer and the
\* error returned
event(evs, sun, e) ==
  IF "dark" \in e.flag /\ RLess(RInt(DarkEl), sunel(sun, e.tim))
  THEN [events |-> evs, err |-> "nil"]
  ELSE IF "light" \in e.flag /\ RLess(sunel(sun, e.tim), RInt(LightEl))
  THEN [events |-> evs, err |-> "nil"]
  ELSE IF Len(evs) >= nevents
  THEN [events |-> evs, err |-> "too many events"]
  ELSE [events |-> Append(evs, e), err |-> "nil"]

\* the key without the offset of the significant events
sortKeyPlain(e) == e.tim

\* the key of the comparison of evflush: tim, less 1000 when significant
sortKey(e) == IF "signif" \in e.flag THEN RAddInt(e.tim, -1000) ELSE e.tim

\* e put into the sorted sequence srt: after the events whose key is not
\* greater, or (rev) before the events whose key is not less
insertEvt(srt, e, rev) ==
  LET k == sortKey(e)
      n == IF rev
           THEN Cardinality({j \in 1..Len(srt) : RLess(sortKey(srt[j]), k)})
           ELSE Cardinality({j \in 1..Len(srt) : RLeq(sortKey(srt[j]), k)})
  IN  SubSeq(srt, 1, n) \o <<e>> \o SubSeq(srt, n + 1, Len(srt))

\* slices.SortFunc by sortKey: srt holds the first Len(srt) events of evs in
\* order, and the events up to evs[hi] are put into it.  The sort is not
\* stable: rev chooses between two of the orders it may leave events of
\* equal key in.
RECURSIVE sortInto(_, _, _, _)
sortInto(srt, evs, hi, rev) ==
  IF Len(srt) >= hi THEN srt
  ELSE IF Len(srt) + 1 = hi THEN insertEvt(srt, evs[hi], rev)
  ELSE sortInto(sortInto(srt, evs, (Len(srt) + 1 + hi) \div 2, rev), evs, hi, rev)

sortEvents(evs, n, rev) == sortInto(<<>>, evs, n, rev)

\* julianToTime(day + e.tim*deld), in whole seconds since day 0
printedTime(dy, t) ==
  LET f == RFloor(t)
  IN  (dy + f) * StepSec + ((t[1] - f * t[2]) * StepSec) \div t[2]

\* the lines printed for the sorted buffer srt, in order
printed(srt, dy) ==
  [j \in 1..Len(srt) |->
     [s |-> srt[j].s, tim |-> srt[j].tim, flag |-> srt[j].flag,
      at |-> IF "ptime" \in srt[j].flag THEN printedTime(dy, srt[j].tim) ELSE -1]]

\* evflush: the buffer is sorted in place and printed
evflush(evs, dy, rev) ==
  LET srt == sortEvents(evs, Len(evs), rev)
  IN  [events |-> srt, lines |-> printed(srt, dy)]

\* ------------------------------------------------------------- search
\* a - b for rationals
RSub(a, b) == Rat(a[1] * b[2] - b[1] * a[2], a[2] * b[2])

Opt(c, e) == IF c THEN <<e>> ELSE <<>>
Found(t) == t[1] >= 0

\* the meteor showers of bettab, by the Sun's longitude in arc minutes
bettab ==
  <<[beta |-> -4666, shower |-> "Quadrantid"],
    [beta |-> 2620, shower |-> "Eta aquarid"],
    [beta |-> 5327, shower |-> "Ophiuchid"],
    [beta |-> 7331, shower |-> "Capricornid"],
    [beta |-> 7560, shower |-> "Delta aquarid"],
    [beta |-> 7617, shower |-> "Pisces australid"],
    [beta |-> 8364, shower |-> "Perseid"],
    [beta |-> -9137, shower |-> "Orionid"],
    [beta |-> -6421, shower |-> "Phoenicid"],
    [beta |-> -5934, shower |-> "Geminid"]>>

\* the state of one pass of search: the globals, the buffer, the error to
\* return, whether a contact loop never ends, and (bookkeeping) the calls of
\* event and of occult made in the pass, the calls of event that the gates
\* dropped, whether event found the buffer full, the pass of occult that
\* found no minimum, and the calls of event made after either
Pass(g, evs) ==
  [g |-> g, evs |-> evs, err |-> "nil", hang |-> FALSE, calls |-> 0, occults |-> 0,
   gated |-> 0, full |-> FALSE, late |-> 0, refine |-> "none"]

\* what a call of event leaves of the pass: r is what event returned
eventDone(ss, r) ==
  [ss EXCEPT !.evs = r.events, !.err = r.err, !.calls = @ + 1,
             !.gated = IF r.err = "nil" /\ Len(r.events) = Len(ss.evs)
                       THEN @ + 1 ELSE @,
             !.full = @ \/ r.err # "nil",
             !.late = IF ss.full \/ ss.refine # "none" THEN @ + 1 ELSE @]

\* the call of event with its error dropped
callEventOn(ss, sun, e) ==
  IF ss.hang THEN ss
  ELSE [eventDone(ss, event(ss.evs, sun, e)) EXCEPT !.err = "nil"]

\* err := event(e); if err != nil { return err }
callEvent(ss, sun, e) ==
  IF ss.err # "nil" \/ ss.hang THEN ss
  ELSE eventDone(ss, event(ss.evs, sun, e))

\* the calls of event for es[lo..hi], in order, up to the first error (the
\* first half of the range, then the second)
RECURSIVE callRange(_, _, _, _, _)
callRange(ss, sun, es, lo, hi) ==
  IF lo > hi \/ ss.err # "nil" \/ ss.hang THEN ss
  ELSE IF lo = hi THEN callEvent(ss, sun, es[lo])
  ELSE callRange(callRange(ss, sun, es, lo, (lo + hi) \div 2), sun, es,
                 (lo + hi) \div 2 + 1, hi)

callAll(ss, sun, es, k) == callRange(ss, sun, es, k, Len(es))

\* the events of body number i (from 1) that need no other body but the Sun,
\* in the order search raises them
riseSetEvents(pts, i) ==
  LET b == BodyNames[i]
      fl == IF i = 1 THEN {"ptime"} ELSE {"ptime", "dark"}
      tr == rise(pts[b], -833)
      ts == set(pts[b], -833)
  IN  Opt(Found(tr), Evt("rises", b, tr, fl)) \o Opt(Found(ts), Evt("sets", b, ts, fl))

solstr == <<"Fall equinox", "Winter solstice", "Spring equinox", "Summer solstice">>

RECURSIVE solsticeEvents(_, _)
solsticeEvents(sun, j) ==
  IF j > 3 THEN <<>>
  ELSE LET t == solstice(sun, j)
       IN  Opt(Found(t), Evt("at", solstr[j + 1], t, {"signif", "ptime"}))
             \o solsticeEvents(sun, j + 1)

RECURSIVE showerEvents(_, _)
showerEvents(sun, j) ==
  IF j > Len(bettab) THEN <<>>
  ELSE LET t == betcross(sun, bettab[j].beta)
       IN  Opt(Found(t), Evt("meteor shower", bettab[j].shower, t, {"signif"}))
             \o showerEvents(sun, j + 1)

twilightEvents(sun) ==
  LET tr == rise(sun, -18000)
      ts == set(sun, -18000)
  IN  Opt(Found(tr), Evt("Twilight starts", "", tr, {"ptime"}))
        \o Opt(Found(ts), Evt("Twilight ends", "", ts, {"ptime"}))

RECURSIVE phaseEvents(_, _)
phaseEvents(pt, j) ==
  IF j > npts - 1 THEN <<>>
  ELSE LET m1 == pt[j].mag
           m2 == pt[j + 1].mag
       IN  Opt(m1 > 7500 /\ m2 < 2500, Evt("New moon", "", Zero, {}))
             \o Opt(m1 <= 2500 /\ m2 > 2500, Evt("First quarter moon", "", Zero, {}))
             \o Opt(m1 <= 5000 /\ m2 > 5000, Evt("Full moon", "", Zero, {}))
             \o Opt(m1 <= 7500 /\ m2 > 7500, Evt("Last quarter moon", "", Zero, {}))
             \o phaseEvents(pt, j + 1)

elongSide(b, t) ==
  IF RLess(RInt(npts \div 2), IF RLess(RInt(npts), t) THEN RAddInt(t, -npts) ELSE t)
  THEN <<Evt("Morning elongation", b, Zero, {"signif"})>>
  ELSE <<Evt("Evening elongation", b, Zero, {"signif"})>>

elongOf(b, t) == elongSide(b, IF t[1] < 0 THEN RAddInt(t, npts) ELSE t)

elongEvents(pts, b) ==
  IF melong(pts[b], pts["sun"]) < 0 THEN <<>>
  ELSE elongOf(b, RSub(rise(pts[b], 0), rise(pts["sun"], 0)))

soloEvents(pts, i) ==
  LET b == BodyNames[i]
  IN  riseSetEvents(pts, i)
        \o (IF b = "sun"
            THEN solsticeEvents(pts[b], 0) \o showerEvents(pts[b], 1)
                   \o twilightEvents(pts[b])
            ELSE <<>>)
        \o (IF b = "moon" THEN phaseEvents(pts[b], 0) ELSE <<>>)
        \o (IF b \in {"mercury", "venus"} THEN elongEvents(pts, b) ELSE <<>>)

\* an obj2 passed by value: its name and its samples
Obj2(pts, b) == [name |-> b, point |-> pts[b]]

\* what a call of occult leaves of the pass: r is what occult returned
occultDone(ss, r) ==
  [ss EXCEPT !.g = r.g, !.err = r.err, !.hang = r.hang, !.occults = @ + 1,
             !.refine = IF r.stage \in {"bad 1", "bad 2"} THEN r.stage ELSE @]

\* if err := occult(o1, o2); err != nil { return err }
callOccult(ss, o1, o2, dy) == occultDone(ss, occult(o1, o2, ss.g, dy))

eclipseEvents(oc, b) ==
  Opt(Found(oc.t1), Evt("Partial eclipse begins", b, oc.t1, {"signif", "ptime"}))
    \o Opt(Found(oc.t2), Evt("Total eclipse begins", b, oc.t2, {"signif", "ptime"}))
    \o Opt(Found(oc.t4), Evt("Total eclipse ends", b, oc.t4, {"signif", "ptime"}))
    \o Opt(Found(oc.t5), Evt("Partial eclipse ends", b, oc.t5, {"signif", "ptime"}))

occultationEvents(oc, b) ==
  Opt(Found(oc.t1), Evt("Occultation begins", b, oc.t1, {"signif", "ptime"}))
    \o Opt(Found(oc.t5), Evt("Occultation ends", b, oc.t5, {"signif", "ptime"}))

transitEvents(oc, b) ==
  Opt(Found(oc.t1), Evt("Transit begins", b, oc.t1, {"signif", "light", "ptime"}))
    \o Opt(Found(oc.t5), Evt("Transit ends", b, oc.t5, {"signif", "light", "ptime"}))

\* the events of the pair o, p after its call of occult: eclipse or
\* occultation events where the Moon is one of the pair, transit events
\* where the Sun meets Mercury or Venus
pairEvents(s1, pts, o, p) ==
  IF s1.err # "nil" \/ s1.hang \/ ~Found(s1.g.occ.t3) THEN s1
  ELSE callAll(s1, pts["sun"],
               IF o = "moon" \/ p = "moon"
               THEN (IF o = "sun" \/ p = "moon"
                     THEN eclipseEvents(s1.g.occ, o)
                     ELSE occultationEvents(s1.g.occ, o))
               ELSE transitEvents(s1.g.occ, p),
               1)

\* one turn of the inner loop of search: the pair o, p
pairStep(ss, pts, o, p, dy) ==
  IF ss.err # "nil" \/ ss.hang THEN ss
  ELSE IF o = "moon" \/ p = "moon" \/ (o = "sun" /\ p \in {"mercury", "venus"})
  THEN pairEvents(callOccult(ss, Obj2(pts, o), Obj2(pts, p), dy), pts, o, p)
  ELSE IF o = "sun" THEN ss
  ELSE IF 60 * dist(pts[o][0], pts[p][0]) > 5000 THEN ss
  ELSE callEvent(ss, pts["sun"], [s |-> <<"is in the house of", o, p>>, tim |-> Zero, flag |-> {}])

\* the inner loop of search for body number i against the bodies lo..hi, up
\* to the first error
RECURSIVE pairLoop(_, _, _, _, _, _)
pairLoop(ss, pts, i, lo, hi, dy) ==
  IF lo > hi \/ ss.err # "nil" \/ ss.hang THEN ss
  ELSE IF lo = hi THEN pairStep(ss, pts, BodyNames[i], BodyNames[lo], dy)
  ELSE pairLoop(pairLoop(ss, pts, i, lo, (lo + hi) \div 2, dy), pts, i,
                (lo + hi) \div 2 + 1, hi, dy)

\* one turn of the outer loop of search: body number i
bodyStep(ss, pts, i, dy) ==
  IF BodyNames[i] = "shadow" THEN ss
  ELSE pairLoop(callAll(ss, pts["sun"], soloEvents(pts, i), 1), pts, i, i + 1,
                Len(BodyNames), dy)

\* the outer loop of search for the bodies lo..hi, up to the first error
RECURSIVE bodyLoop(_, _, _, _, _)
bodyLoop(ss, pts, lo, hi, dy) ==
  IF lo > hi \/ ss.err # "nil" \/ ss.hang THEN ss
  ELSE IF lo = hi THEN bodyStep(ss, pts, lo, dy)
  ELSE bodyLoop(bodyLoop(ss, pts, lo, (lo + hi) \div 2, dy), pts,
                (lo + hi) \div 2 + 1, hi, dy)

\* ------------------------------------------------------------- stars
\* 2 pi and the margin of the Moon's band, in seconds of arc
pipiSec == 2 * 60 * PI
BandSec == 1000

\* A catalog star st of the world: its SAO number, its right ascension alpha
\* in arc minutes from 0 to 2 pi, its magnitude in tenths, whether it lies
\* within .0183 of the Moon's orbital plane, and its elevation (amp, slope,
\* phase, as for a body).
starEl(st, T) == st.amp - st.slope * Abs(((T + st.phase) % DayT) - (DayT \div 2))

\* whether the band test of stars skips the right ascension a
offBand(a, lo, hi) ==
  IF variant = "astro"
  THEN a < lo \/ a > hi
  ELSE (lo > hi /\ (a < lo /\ a > hi)) \/ (~(lo > hi) /\ (a < lo \/ a > hi))

starEvents(oc, st) ==
  LET fl == {"ptime"} \cup (IF st.mag > 20 THEN {"dark"} ELSE {})
                      \cup (IF st.mag < 50 THEN {"signif"} ELSE {})
  IN  IF ~(Found(oc.t1) \/ Found(oc.t5)) THEN <<>>
      ELSE Opt(Found(oc.t1) /\ oc.e1 >= 0, Evt("Occultation of SAO begins", st.sao, oc.t1, fl))
             \o Opt(Found(oc.t5) /\ oc.e5 >= 0, Evt("Occultation of SAO ends", st.sao, oc.t5, fl))

\* the Moon's band: lomoon and himoon, in seconds of arc
bandLo(pts) ==
  IF 60 * pts["moon"][0].ra - BandSec < 0
  THEN 60 * pts["moon"][0].ra - BandSec + pipiSec
  ELSE 60 * pts["moon"][0].ra - BandSec

bandHi(pts) ==
  IF 60 * pts["moon"][npts + 1].ra + BandSec > pipiSec
  THEN 60 * pts["moon"][npts + 1].ra + BandSec - pipiSec
  ELSE 60 * pts["moon"][npts + 1].ra + BandSec

\* the events of a star after its call of occult
starDone(s1, pts, st) ==
  IF s1.err # "nil" \/ s1.hang THEN s1
  ELSE callAll(s1, pts["sun"], starEvents(s1.g.occ, st), 1)

\* occult(omoon, ostar) from the globals g2
starOccult(ss, pts, st, dy, g2) ==
  starDone(callOccult([ss EXCEPT !.g = g2], Obj2(pts, "moon"),
                      [name |-> "Star", point |-> g2.ostar], dy),
           pts, st)

\* the test of the Moon's orbital plane, then the samples of the star:
\* astro.go sets copies of the samples; part_000 sets the samples
starNear(ss, pts, st, dy, g1) ==
  IF ~st.near THEN [ss EXCEPT !.g = g1]
  ELSE starOccult(ss, pts, st, dy,
                  IF variant = "astro" THEN g1
                  ELSE [g1 EXCEPT !.ostar = [k \in Slots |-> setobj(g1)]])

\* helio and geo with semi = 0: every scratch global but mag
starGlobals(g, st) ==
  [g EXCEPT !.scr = [ra |-> pinorm(st.alpha), decl2 |-> 0, semi2 |-> 0,
                     az |-> 0, el |-> starEl(st, g.eday),
                     mag |-> g.scr.mag, semi |-> 0]]

\* one line of the catalog
starStep(ss, pts, st, dy) ==
  IF ss.err # "nil" \/ ss.hang THEN ss
  ELSE IF offBand(60 * st.alpha, bandLo(pts), bandHi(pts)) THEN ss
  ELSE starNear(ss, pts, st, dy, starGlobals(ss.g, st))

\* the lines lo..hi of the catalog, up to the first error
RECURSIVE starLoop(_, _, _, _, _, _)
starLoop(ss, pts, cat, lo, hi, dy) ==
  IF lo > hi \/ ss.err # "nil" \/ ss.hang THEN ss
  ELSE IF lo = hi THEN starStep(ss, pts, cat[lo], dy)
  ELSE starLoop(starLoop(ss, pts, cat, lo, (lo + hi) \div 2, dy), pts, cat,
                (lo + hi) \div 2 + 1, hi, dy)

\* stars: the catalog file is opened, then read line by line
stars(ss, pts, dy) ==
  IF ss.err # "nil" \/ ss.hang THEN ss
  ELSE IF ~world.estartab THEN [ss EXCEPT !.err = "open estartab"]
  ELSE starLoop(ss, pts, world.catalog, 1, Len(world.catalog), dy)

\* if *oflag { if err := stars(); err != nil { return err } }
starPass(ss, pts, dy, of) == IF of THEN stars(ss, pts, dy) ELSE ss

\* search before its evflush: the pass over the bodies, then stars under -o
search(g, evs, pts, dy, of) ==
  starPass(bodyLoop(Pass(g, evs), pts, 1, Len(BodyNames), dy), pts, dy, of)

\* ------------------------------------------------------------- worlds
\* a body at rest below the horizon
Still ==
  [ra0 |-> 0, rv |-> 0, wob |-> 0, semi |-> 0, amp |-> -20000, slope |-> 0,
   phase |-> 0, m0 |-> 0, mv |-> 0, mmod |-> 0, hp |-> 57, hpv |-> 0]

\* where the bodies rest, far from each other (the shadow is placed by shad)
Place ==
  [sun |-> -4000, moon |-> -3200, shadow |-> 0, mercury |-> -1600, venus |-> -800,
   mars |-> 0, jupiter |-> 800, saturn |-> 1600, uranus |-> 2400,
   neptune |-> 3200, pluto |-> 4000, comet |-> 4800]

QuietBodies ==
  [b \in Bodies |-> [Still EXCEPT !.ra0 = Place[b],
                                   !.semi = IF b = "moon" THEN 15 ELSE 0]]

\* the elevation of a body that is highest (20 degrees) ph instants before
\* the middle of day 0 and lowest (-23.2 degrees) half a day from there
Cycle(p, ph) == [p EXCEPT !.amp = 20000, !.slope = 60, !.phase = ph]
\* a body that moves v arc minutes an instant and is at ra at the instant T
Moving(p, ra, T, v) == [p EXCEPT !.ra0 = ra - v * T, !.rv = v]

Sky(nm, bd, cat) == [name |-> nm, body |-> bd, estartab |-> TRUE, catalog |-> cat]

DayBodies ==
  [QuietBodies EXCEPT !["sun"] = Cycle(@, 0)]

\* nothing moves; the catalog file is missing
WQuiet == [Sky("quiet", QuietBodies, <<>>) EXCEPT !.estartab = FALSE]

\* Mars and the comet rise in the dark and set in daylight, Jupiter rises
\* and sets in daylight, the Sun's longitude passes a meteor shower, the Moon
\* is full
WDay ==
  Sky("day",
      [DayBodies EXCEPT !["mars"] = Cycle(@, 360),
                        !["comet"] = Cycle(@, 300),
                        !["jupiter"] = Cycle(@, 0),
                        !["sun"] = [Cycle(@, 0) EXCEPT !.m0 = 2000, !.mv = 1],
                        !["moon"] = [@ EXCEPT !.m0 = 4500, !.mv = 1]],
      <<>>)

\* Mercury crosses the Sun at noon, Venus crosses it before dawn
WTransit ==
  Sky("transit",
      [DayBodies EXCEPT !["mercury"] = Moving(@, Place["sun"], 720, 4),
                        !["venus"] = Moving(@, Place["sun"], 60, 4)],
      <<>>)

\* the Moon crosses the Sun at instant 480, then Mercury, Venus and Mars
WEclipse ==
  Sky("eclipse",
      [DayBodies EXCEPT !["moon"] = Moving(@, Place["sun"], 480, 4)],
      <<>>)

\* a wide Moon whose middle crosses the comet at instant 61: the first
\* contact is before the window
WEarly ==
  Sky("early",
      [DayBodies EXCEPT !["moon"] = [Moving(@, Place["comet"], 61, 1) EXCEPT !.semi = 70]],
      <<>>)

\* the Moon wanders between the samples: its samples cross Mars at instant
\* 61, where the Moon is not
WWander ==
  Sky("wander",
      [DayBodies EXCEPT !["moon"] = [Moving(@, Place["mars"], 61, 1) EXCEPT !.wob = 3]],
      <<>>)

\* the nine planets stand within 83 arc minutes of each other
WCrowd ==
  Sky("crowd",
      [b \in Bodies |->
         IF b \in {"sun", "moon", "shadow"} THEN QuietBodies[b]
         ELSE [Still EXCEPT !.ra0 = (Place[b] + 1600) \div 80]],
      <<>>)

\* the catalog: NStars stars where the Moon is, one off the Moon's band and
\* one off its orbital plane
NStars == nevents + 1
CatStar(k, a, nr) ==
  [sao |-> k, alpha |-> a, mag |-> 30, near |-> nr, amp |-> 10000, slope |-> 0,
   phase |-> 0]
WCatalog ==
  Sky("catalog",
      [DayBodies EXCEPT !["moon"] = [@ EXCEPT !.ra0 = 18, !.wob = 1, !.semi = 1,
                                              !.amp = 20000]],
      <<CatStar(0, 5000, TRUE), CatStar(1, 18, FALSE)>>
        \o [k \in 1..NStars |-> CatStar(k + 1, 18, TRUE)])

Worlds == {WQuiet, WDay, WTransit, WEclipse, WEarly, WWander, WCrowd, WCatalog}

\* ------------------------------------------------------------- main
\* the body of the sampling loop for slot i at the instant T, from body
\* number j: objs[j].f(); setobj(&objs[j].point[i])
\* a is the state of the loop: the globals g, the samples pts, the slot i
\* and the body number j
sampleBody(a) ==
  LET b == BodyNames[a.j]
      g1 == bodyf(b, a.g)
  IN  [a EXCEPT !.g = g1, !.pts[b][a.i] = setobj(g1), !.j = a.j + 1]

\* the turns of the loop over the bodies up to body number hi
RECURSIVE sampleBodies(_, _)
sampleBodies(a, hi) ==
  IF a.j > hi THEN a
  ELSE IF a.j = hi THEN sampleBody(a)
  ELSE sampleBodies(sampleBodies(a, (a.j + hi) \div 2), hi)

\* a turn of the sampling loop whose step is a twelfth of the period -C
sampleSlotC(a, dy) ==
  LET a1 == sampleBodies([a EXCEPT !.g = setime(a.g, StepT * dy
                                               + ((StepT * interval) \div npts) * a.i),
                                   !.j = 1],
                         Len(BodyNames))
  IN  [a1 EXCEPT !.i = a.i + 1]

\* one turn of the sampling loop: setime(d), the bodies, d += deld
sampleSlot(a, dy) ==
  LET a1 == sampleBodies([a EXCEPT !.g = setime(a.g, StepT * (dy + a.i)), !.j = 1],
                         Len(BodyNames))
  IN  [a1 EXCEPT !.i = a.i + 1]

\* the turns of the sampling loop up to slot hi
RECURSIVE sampler(_, _, _)
sampler(a, dy, hi) ==
  IF a.i > hi THEN a
  ELSE IF a.i = hi THEN sampleSlot(a, dy)
  ELSE sampler(sampler(a, dy, (a.i + hi) \div 2), dy, hi)

\* the objects of -e: the zero value of eobjs, and eobjs[i] = *objs[j], set
\* before the first period (part_000: eObjs[i] = objs[j], a pointer, which
\* the model follows by the name)
NoEobj == [name |-> "", point |-> ZeroPoints]
eobj(n) == [name |-> n, point |-> ZeroPoints]
\* the pairs of names given to -e
EclipsePairs == {<<"sun", "moon">>, <<"moon", "mars">>}

\* eobjs[k].point as the sampling loop reads it when objs holds pts
eclipsePoint(e, pts) == IF variant = "astro" THEN e.point ELSE pts[e.name]

\* whether the sampling loop under -p prints the body named b
printsBody(b) ==
  IF variant = "astro" THEN ~(mflag /\ b = "Comet") ELSE ~(mflag /\ b # "comet")

\* output(objs[j].name, objs[j].point[i]) for the bodies printed, in order
printedPositions(pts, i) ==
  LET bs == SelectSeq(BodyNames, printsBody)
  IN  [k \in 1..Len(bs) |->
         [kind |-> "pos", names |-> <<bs[k]>>, p |-> pts[bs[k]][i], d |-> 0]]

\* d = dist(eobjs[0].point[i], eobjs[1].point[i]) and its line, in seconds
\* of arc
printedDist(pts, i) ==
  [kind |-> "dist", names |-> <<eobjs[1].name, eobjs[2].name>>, p |-> ZeroObj1,
   d |-> 60 * dist(eclipsePoint(eobjs[1], pts)[i], eclipsePoint(eobjs[2], pts)[i])]

\* what the turn i of the sampling loop prints
sampleOutput(pts, i) ==
  (IF pflag THEN printedPositions(pts, i) ELSE <<>>)
    \o (IF eclipse THEN <<printedDist(pts, i)>> ELSE <<>>)

\* whether main calls search after the sampling loop
runsSearch ==
  IF variant = "astro" THEN ~pflag \/ ~eclipse ELSE ~pflag /\ ~eclipse

ZeroOcc ==
  [t1 |-> Zero, t2 |-> Zero, t3 |-> Zero, t4 |-> Zero, t5 |-> Zero,
   e1 |-> 0, e2 |-> 0, e3 |-> 0, e4 |-> 0, e5 |-> 0]
ZeroScr == [ra |-> 0, decl2 |-> 0, semi2 |-> 0, az |-> 0, el |-> 0, mag |-> 0, semi |-> 0]
\* bookkeeping of the last pass of search: the counts of Pass, the length
\* of the buffer when the pass began, the events the pass appended, and
\* whether the pass ended in evflush
ZeroStat ==
  [calls |-> 0, gated |-> 0, occults |-> 0, full |-> FALSE, late |-> 0,
   refine |-> "none", base |-> 0, added |-> <<>>, flushed |-> FALSE]

\* the lengths of a period (-C), in sample steps: half a day, one day
Intervals == {npts \div 2, npts}

\* the runs explored: every flag, pair of -e, period count and period length
\* under the quiet sky, the same without -o and -m and with the first pair
\* of -e under the day sky and without flags under the crowd, one plain
\* period under the skies with contacts, one period of -o under the catalog
Explored ==
  \/ world.name = "quiet"
  \/ world.name = "day" /\ ~oflag /\ ~mflag /\ (eclipse => eobjs[1].name = "sun")
  \/ world.name = "crowd" /\ ~pflag /\ ~eclipse /\ ~oflag /\ ~mflag
  \/ /\ world.name \in {"transit", "eclipse", "early", "wander"}
     /\ ~pflag /\ ~eclipse /\ ~oflag /\ ~mflag /\ nperiods = 1 /\ interval = npts
  \/ /\ world.name = "catalog"
     /\ ~pflag /\ ~eclipse /\ oflag /\ ~mflag /\ nperiods = 1 /\ interval = npts

Init ==
  /\ variant \in Variants
  /\ world \in Worlds
  /\ pflag \in BOOLEAN
  /\ eclipse \in BOOLEAN
  /\ eobjs \in (IF eclipse THEN {<<eobj(pr[1]), eobj(pr[2])>> : pr \in EclipsePairs}
                ELSE {<<NoEobj, NoEobj>>})
  /\ mflag \in BOOLEAN
  /\ oflag \in BOOLEAN
  /\ nperiods \in 1..MaxPeriods
  /\ interval \in Intervals
  /\ Explored
  /\ pc = "sample"
  /\ period = 0
  /\ day = 0
  /\ objs = [b \in Bodies |-> ZeroPoints]
  /\ ostar = ZeroPoints
  /\ scr = ZeroScr
  /\ eday = 0
  /\ seday = 0
  /\ salph = 0
  /\ meday = 0
  /\ mhp = 0
  /\ occ = ZeroOcc
  /\ events = <<>>
  /\ emitted = <<>>
  /\ out = <<>>
  /\ err = "nil"
  /\ stat = ZeroStat
  /\ arg = 0
  /\ res = 0

SetGlobals(g) ==
  /\ scr' = g.scr
  /\ eday' = g.eday
  /\ seday' = g.seday
  /\ salph' = g.salph
  /\ meday' = g.meday
  /\ mhp' = g.mhp
  /\ occ' = g.occ
  /\ ostar' = g.ostar

\* day += *p, and the next turn of the loop over the periods
NextPeriod ==
  /\ day' = day + interval
  /\ period' = period + 1
  /\ pc' = IF period + 1 >= nperiods THEN "done" ELSE "sample"

\* one turn of the loop of main up to the call of search: the sampling loop,
\* which stops after slot 0 under -p or -e
Sample ==
  /\ pc = "sample"
  /\ \E a \in {sampler([g |-> Globals, pts |-> objs, i |-> 0, j |-> 1], day,
                         IF pflag \/ eclipse THEN 0 ELSE npts + 1)} :
       /\ objs' = a.pts
       /\ SetGlobals(a.g)
       /\ out' = sampleOutput(a.pts, 0)
  /\ IF runsSearch
     THEN pc' = "search" /\ UNCHANGED <<day, period>>
     ELSE NextPeriod
  /\ UNCHANGED <<variant, world, pflag, eclipse, eobjs, mflag, oflag, nperiods,
                 interval, events, emitted, err, stat, arg, res>>

PassStat(r, base, fl) ==
  [calls |-> r.calls, gated |-> r.gated, occults |-> r.occults, full |-> r.full,
   late |-> r.late, refine |-> r.refine, base |-> base,
   added |-> SubSeq(r.evs, base + 1, Len(r.evs)), flushed |-> fl]

\* search and what main does with its result: log.Fatal on an error, else
\* the flush (which part_000 ends by emptying the buffer) and day += *p
Search ==
  /\ pc = "search"
  /\ \E r \in {search(Globals, events, objs, day, oflag)} :
         /\ SetGlobals(r.g)
         /\ IF r.hang
            THEN /\ pc' = "hang"
                 /\ events' = r.evs
                 /\ stat' = PassStat(r, Len(events), FALSE)
                 /\ UNCHANGED <<emitted, err, day, period>>
            ELSE IF r.err # "nil"
            THEN /\ pc' = "fatal"
                 /\ err' = r.err
                 /\ events' = r.evs
                 /\ stat' = PassStat(r, Len(events), FALSE)
                 /\ UNCHANGED <<emitted, day, period>>
            ELSE /\ \E f \in {evflush(r.evs, day, rev) : rev \in BOOLEAN} :
                      /\ emitted' = f.lines
                      /\ events' = IF variant = "astro" THEN f.events ELSE <<>>
                 /\ stat' = PassStat(r, Len(events), TRUE)
                 /\ NextPeriod
                 /\ UNCHANGED err
  /\ UNCHANGED <<variant, world, pflag, eclipse, eobjs, mflag, oflag, nperiods,
                 interval, objs, out, arg, res>>

Next == Sample \/ Search

Spec == Init /\ [][Next]_vars

\* ------------------------------------------------------------- rise and set alone
\* rise and set applied to elevation sequences of three levels: v1 before
\* slot a, v2 from a to before b, v3 from b, with jt added at the odd slots
Levels == {-1, 0, 2}
Thresholds == {-1, 0, 1}
Jitter == {0, 1}

Steps(a, b, v1, v2, v3, jt) ==
  [i \in Slots |->
     Obj1(0, 0, (IF i < a THEN v1 ELSE IF i < b THEN v2 ELSE v3) + jt * (i % 2), 0)]

\* the variables that the functions applied on their own leave alone
IdleRun ==
  /\ pflag = FALSE
  /\ eclipse = FALSE
  /\ eobjs = <<NoEobj, NoEobj>>
  /\ mflag = FALSE
  /\ oflag = FALSE
  /\ nperiods = 1
  /\ interval = npts
  /\ period = 0
  /\ day = 0
  /\ events = <<>>
  /\ emitted = <<>>
  /\ out = <<>>
  /\ err = "nil"
  /\ stat = ZeroStat

Idle == variant = "astro" /\ IdleRun

InitRise ==
  /\ Idle
  /\ world = WQuiet
  /\ pc = "apply"
  /\ objs = [b \in Bodies |-> ZeroPoints]
  /\ ostar = ZeroPoints
  /\ scr = ZeroScr
  /\ eday = 0
  /\ seday = 0
  /\ salph = 0
  /\ meday = 0
  /\ mhp = 0
  /\ occ = ZeroOcc
  /\ \E a, b \in 0..(npts + 2), v1, v2, v3 \in Levels, jt \in Jitter, el \in Thresholds :
       /\ a <= b
       /\ arg = [pt |-> Steps(a, b, v1, v2, v3, jt), el |-> el]
  /\ res = [rise |-> Zero, set |-> Zero]

ApplyRise ==
  /\ pc = "apply"
  /\ res' = [rise |-> rise(arg.pt, arg.el), set |-> set(arg.pt, arg.el)]
  /\ pc' = "applied"
  /\ UNCHANGED <<variant, world, pflag, eclipse, eobjs, mflag, oflag, nperiods, interval,
                 period, out,
                 day, objs, ostar, scr, eday, seday, salph, meday, mhp, occ, events,
                 emitted, err, stat, arg>>

SpecRise == InitRise /\ [][ApplyRise]_vars

\* ------------------------------------------------------------- occult alone
\* occult called up to MaxCalls times on the samples of one window, each
\* call on one of the pairs of OccPairs and from the globals the call
\* before left
MaxCalls == 3
OccPairs == {<<"sun", "moon">>, <<"moon", "shadow">>, <<"moon", "mars">>}

\* the sky of WEarly with the Moon's middle crossing Mars
WEarlyMars ==
  Sky("early mars",
      [DayBodies EXCEPT !["moon"] = [Moving(@, Place["mars"], 61, 1) EXCEPT !.semi = 70]],
      <<>>)

\* the sky of WEclipse with the Moon's middle crossing the Sun's half an
\* instant before the instant 480
WEclipseHalf ==
  Sky("eclipse half",
      [DayBodies EXCEPT !["moon"] = Moving(@, Place["sun"] + 2, 480, 4)],
      <<>>)

\* the Sun moves an arc minute an instant and the Moon's parallax changes
\* every four samples; the Moon's middle crosses the shadow's at the instant 240
WLunar ==
  Sky("lunar",
      [DayBodies EXCEPT
         !["sun"] = Moving(@, Place["sun"], 0, 1),
         !["moon"] = [Moving(@, Place["sun"] + PI + 240, 240, 5) EXCEPT !.hpv = 3]],
      <<>>)

OccWorlds == {WEclipseHalf, WEarlyMars, WWander, WLunar}

InitOcc ==
  /\ IdleRun
  /\ variant \in Variants
  /\ world \in OccWorlds
  /\ pc = "sample"
  /\ objs = [b \in Bodies |-> ZeroPoints]
  /\ ostar = ZeroPoints
  /\ scr = ZeroScr
  /\ eday = 0
  /\ seday = 0
  /\ salph = 0
  /\ meday = 0
  /\ mhp = 0
  /\ occ = ZeroOcc
  /\ arg = 0
  /\ res = <<>>

\* the sampling loop of main for the window of day 0
OccSample ==
  /\ pc = "sample"
  /\ \E a \in {sampler([g |-> Globals, pts |-> objs, i |-> 0, j |-> 1], day, npts + 1)} :
       /\ objs' = a.pts
       /\ SetGlobals(a.g)
  /\ pc' = "call"
  /\ UNCHANGED <<variant, world, pflag, eclipse, eobjs, mflag, oflag, nperiods, interval,
                 period, out,
                 day, events, emitted, err, stat, arg, res>>

Times(oc) == <<oc.t1, oc.t2, oc.t3, oc.t4, oc.t5>>
Flags(f) == <<f.f1, f.f2, f.f3, f.f4, f.f5>>

\* one call occult(o1, o2); res is the log of the calls, and a call that
\* does not return is the last
OccCall ==
  /\ pc = "call"
  /\ Len(res) < MaxCalls
  /\ \A k \in 1..Len(res) : ~res[k].hang
  /\ \E pr \in OccPairs :
       \E r \in {occult(Obj2(objs, pr[1]), Obj2(objs, pr[2]), Globals, day)} :
         /\ SetGlobals(r.g)
         /\ res' = Append(res, [pair |-> pr, err |-> r.err, hang |-> r.hang,
                                 t |-> Times(r.g.occ), found |-> Flags(r.found),
                                 stage |-> r.stage])
  /\ UNCHANGED <<variant, world, pflag, eclipse, eobjs, mflag, oflag, nperiods, interval,
                 period, out,
                 day, objs, events, emitted, err, stat, arg, pc>>

NextOcc == OccSample \/ OccCall

SpecOcc == InitOcc /\ [][NextOcc]_vars

\* occult under skies that try its medium pass
\* the Moon's middle crosses Mars' half way between the samples 4 and 5,
\* where the right ascension passes +-pi
WWrap ==
  Sky("wrap",
      [DayBodies EXCEPT !["mars"] = [@ EXCEPT !.ra0 = PI - 2],
                        !["moon"] = Moving(@, PI - 2, 4 * StepT + StepT \div 2, 4)],
      <<>>)
\* nothing moves in right ascension: every separation is the same in every
\* sample, and wide
WApart == Sky("apart", DayBodies, <<>>)

MedWorlds == {WWrap, WApart}

InitMed ==
  /\ IdleRun
  /\ variant \in Variants
  /\ world \in MedWorlds
  /\ pc = "sample"
  /\ objs = [b \in Bodies |-> ZeroPoints]
  /\ ostar = ZeroPoints
  /\ scr = ZeroScr
  /\ eday = 0
  /\ seday = 0
  /\ salph = 0
  /\ meday = 0
  /\ mhp = 0
  /\ occ = ZeroOcc
  /\ arg = 0
  /\ res = <<>>

SpecMed == InitMed /\ [][NextOcc]_vars

\* occult under skies that try its contact loops
\* the Moon rests 5 arc minutes from Mars, which its disc covers
WTied ==
  Sky("tied",
      [DayBodies EXCEPT !["moon"] = [@ EXCEPT !.ra0 = Place["mars"] + 5]],
      <<>>)
\* the Moon and Mars move alike, 5 arc minutes from each other
WAlong ==
  Sky("along",
      [DayBodies EXCEPT !["mars"] = Moving(@, Place["mars"], 0, 4),
                        !["moon"] = Moving(@, Place["mars"] + 5, 0, 4)],
      <<>>)

LoopingWorlds == {WTied, WAlong, WWrap}

InitLooping ==
  /\ IdleRun
  /\ variant \in Variants
  /\ world \in LoopingWorlds
  /\ pc = "sample"
  /\ objs = [b \in Bodies |-> ZeroPoints]
  /\ ostar = ZeroPoints
  /\ scr = ZeroScr
  /\ eday = 0
  /\ seday = 0
  /\ salph = 0
  /\ meday = 0
  /\ mhp = 0
  /\ occ = ZeroOcc
  /\ arg = 0
  /\ res = <<>>

SpecLooping == InitLooping /\ [][NextOcc]_vars

\* ------------------------------------------------------------- body models alone
\* one frame of the sampling loop for the body arg.b at the instant arg.T:
\* setime, then objs[j].f() and setobj, once right after setime and once
\* after the body arg.prev, which main and occult compute before arg.b, was
\* computed in the same frame
FrameWorlds == {WDay, WLunar}
FrameTimes == {StepT, 2 * StepT, 5 * StepT}

InitFrame ==
  /\ IdleRun
  /\ variant \in Variants
  /\ world \in FrameWorlds
  /\ pc = "frame"
  /\ objs = [b \in Bodies |-> ZeroPoints]
  /\ ostar = ZeroPoints
  /\ scr = ZeroScr
  /\ eday = 0
  /\ seday = 0
  /\ salph = 0
  /\ meday = 0
  /\ mhp = 0
  /\ occ = ZeroOcc
  /\ \E i, j \in 1..Len(BodyNames), T \in FrameTimes :
       /\ i < j
       /\ arg = [b |-> BodyNames[j], prev |-> BodyNames[i], T |-> T]
  /\ res = 0

FrameCall ==
  /\ pc = "frame"
  /\ \E g \in {setime(Globals, arg.T)} :
       res' = [alone |-> setobj(bodyf(arg.b, g)),
               after |-> setobj(bodyf(arg.b, bodyf(arg.prev, g)))]
  /\ pc' = "framed"
  /\ UNCHANGED <<variant, world, pflag, eclipse, eobjs, mflag, oflag, nperiods, interval,
                 period, out,
                 day, objs, ostar, scr, eday, seday, salph, meday, mhp, occ, events,
                 emitted, err, stat, arg>>

SpecFrame == InitFrame /\ [][FrameCall]_vars

\* ------------------------------------------------------------- the two loops alone
\* the sampling loop of main for the window of day 0, then the re-sampling
\* loop of the fine pass of occult for a pair of LoopPairs, from di = tdi
\* instants after the start of the window
LoopWorlds == {WDay, WLunar, WEclipseHalf}
LoopPairs == {<<"sun", "moon">>, <<"moon", "shadow">>, <<"moon", "mars">>}
LoopTimes == {0, 7, 118, 240, 600, 1321}

InitLoops ==
  /\ IdleRun
  /\ variant \in Variants
  /\ world \in LoopWorlds
  /\ pc = "sample"
  /\ objs = [b \in Bodies |-> ZeroPoints]
  /\ ostar = ZeroPoints
  /\ scr = ZeroScr
  /\ eday = 0
  /\ seday = 0
  /\ salph = 0
  /\ meday = 0
  /\ mhp = 0
  /\ occ = ZeroOcc
  /\ arg = 0
  /\ res = 0

LoopSample ==
  /\ pc = "sample"
  /\ \E a \in {sampler([g |-> Globals, pts |-> objs, i |-> 0, j |-> 1], day, npts + 1)} :
       /\ objs' = a.pts
       /\ SetGlobals(a.g)
  /\ pc' = "fine"
  /\ UNCHANGED <<variant, world, pflag, eclipse, eobjs, mflag, oflag, nperiods, interval,
                 period, out, day, events, emitted, err, stat, arg, res>>

LoopFine ==
  /\ pc = "fine"
  /\ \E pr \in LoopPairs, tdi \in LoopTimes :
       \E a \in {resampleLoop(pr[1], pr[2],
                              [g |-> Globals, xo1 |-> ZeroPoints, xo2 |-> ZeroPoints],
                              StepT * day + tdi, 0)} :
         /\ SetGlobals(a.g)
         /\ arg' = [pair |-> pr, tdi |-> tdi]
         /\ res' = [xo1 |-> a.xo1, xo2 |-> a.xo2]
  /\ pc' = "fined"
  /\ UNCHANGED <<variant, world, pflag, eclipse, eobjs, mflag, oflag, nperiods, interval,
                 period, out, day, objs, events, emitted, err, stat>>

NextLoops == LoopSample \/ LoopFine

SpecLoops == InitLoops /\ [][NextLoops]_vars

\* ------------------------------------------------------------------- delta-T alone
\* the times of main and setime alone: a day is a number of sample steps
\* from the epoch, delta-T a number of microseconds; arg is the flag -t,
\* res.dT the package variable, res.eday the pair <<d, dT>> for
\* d + dT/86400, res.wlong the delta-T in awlong + 15*dT*radsec
StartDays == {0, 120, 552000}
DtFlags == {0, 69184000}
DtIntervals == {1, npts}

deltaT(dt, jDay) == IF dt # 0 THEN dt ELSE (jDay * meanSolarDaySeconds) \div npts

InitDT ==
  /\ variant \in Variants
  /\ world = WQuiet
  /\ pflag = FALSE
  /\ eclipse = FALSE
  /\ eobjs = <<NoEobj, NoEobj>>
  /\ mflag = FALSE
  /\ oflag = FALSE
  /\ nperiods = MaxPeriods
  /\ interval \in DtIntervals
  /\ period = 0
  /\ day \in StartDays
  /\ events = <<>>
  /\ emitted = <<>>
  /\ out = <<>>
  /\ err = "nil"
  /\ stat = ZeroStat
  /\ pc = "dt"
  /\ objs = [b \in Bodies |-> ZeroPoints]
  /\ ostar = ZeroPoints
  /\ scr = ZeroScr
  /\ eday = 0
  /\ seday = 0
  /\ salph = 0
  /\ meday = 0
  /\ mhp = 0
  /\ occ = ZeroOcc
  /\ arg \in DtFlags
  /\ res = [dT |-> 0, i |-> 0, d |-> 0, eday |-> <<0, 0>>, wlong |-> 0]

\* main: delta-T = deltaT(day), once, before the loop over the periods
DTMain ==
  /\ pc = "dt"
  /\ res' = [res EXCEPT !.dT = deltaT(arg, day), !.i = 0, !.d = day]
  /\ pc' = "slot"
  /\ UNCHANGED <<variant, world, pflag, eclipse, eobjs, mflag, oflag, nperiods, interval,
                 period, out, day, objs, ostar, scr, eday, seday, salph, meday, mhp, occ,
                 events, emitted, err, stat, arg>>

\* one turn of the sampling loop: setime(d), then d += deld
DTSetime ==
  /\ pc = "slot"
  /\ res.i <= npts + 1
  /\ res' = [res EXCEPT !.eday = <<res.d, res.dT>>, !.wlong = res.dT,
                        !.i = @ + 1, !.d = @ + 1]
  /\ pc' = "slot"
  /\ UNCHANGED <<variant, world, pflag, eclipse, eobjs, mflag, oflag, nperiods, interval,
                 period, out, day, objs, ostar, scr, eday, seday, salph, meday, mhp, occ,
                 events, emitted, err, stat, arg>>

\* the end of a period: day += *p, and the next period's d := day
DTPeriod ==
  /\ pc = "slot"
  /\ res.i = npts + 2
  /\ period + 1 < nperiods
  /\ period' = period + 1
  /\ day' = day + interval
  /\ res' = [res EXCEPT !.i = 0, !.d = day + interval]
  /\ pc' = "slot"
  /\ UNCHANGED <<variant, world, pflag, eclipse, eobjs, mflag, oflag, nperiods, interval,
                 out, objs, ostar, scr, eday, seday, salph, meday, mhp, occ,
                 events, emitted, err, stat, arg>>

NextDT == DTMain \/ DTSetime \/ DTPeriod

SpecDT == InitDT /\ [][NextDT]_vars

\* ------------------------------------------------- the longitude handed to helio
\* the last assignments of lambda in sun and in the planets' and the comet's
\* models, angles in arcminutes.  arg is the body with what its model has
\* computed before: for the Sun the day eday and the sum pt of the periodic
\* terms, for the others the longitude in the orbit less the node, nd
\* the node of the body's orbit at the epoch (of the comet: elem.o + 0.4593)
\* and what the model adds to lambda after the reduction to the ecliptic
OrbitNode ==
  [mercury |-> 2829, venus |-> 4547, mars |-> 2927, jupiter |-> 5966,
   saturn |-> 6767, comet |-> 5615]
OrbitShift ==
  [mercury |-> 0, venus |-> 0, mars |-> 0, jupiter |-> 9, saturn |-> -20, comet |-> 0]
Orbiters == DOMAIN OrbitNode

\* math.Atan2(math.Sin(nd)*math.Cos(incl), math.Cos(nd)) for nd a multiple of
\* a quarter turn but no odd multiple of a half turn, where it is the angle
\* of [-pi/2, pi/2] or the half turn that differs from nd by whole turns,
\* whatever the inclination below a quarter turn is
atanNd(nd) == pinormM(nd, PI)

\* lambda = node + math.Atan2(...), and the constant some models add
planetLambda(b, nd) == OrbitNode[b] + atanNd(nd) + OrbitShift[b]

\* sun: anom = math.Mod(anom, 360.) * radian of anom = 358.475845 +
\* .9856002670*eday, argp = 281.220833, lambda = anom + argp and the periodic
\* terms, and one turn less if lambda > pipi
sunAnom(d) == Mod(21509 + 59 * d, 2 * PI)
sunArgp == 16873
sunLambda(d, pt) ==
  LET l == sunAnom(d) + sunArgp + pt
  IN  IF l > 2 * PI THEN l - 2 * PI ELSE l

\* the values of nd: the quarter turns of -2 to 4 turns but the odd half turns
QuarterTurns == {k * (PI \div 2) : k \in {k \in -8..16 : k % 4 # 2}}
\* the days of the Sun, in days from the epoch, and the sums of its terms
SunDays == {-36525, -700, -400, -365, -1, 0, 1, 2, 100, 200, 365, 36525}
SunTerms == {-115, 0, 115}

InitHelio ==
  /\ IdleRun
  /\ variant \in Variants
  /\ world = WQuiet
  /\ pc = "model"
  /\ objs = [b \in Bodies |-> ZeroPoints]
  /\ ostar = ZeroPoints
  /\ scr = ZeroScr
  /\ eday = 0
  /\ seday = 0
  /\ salph = 0
  /\ meday = 0
  /\ mhp = 0
  /\ occ = ZeroOcc
  /\ arg \in {[b |-> b, nd |-> nd, d |-> 0, pt |-> 0] : b \in Orbiters, nd \in QuarterTurns}
            \cup {[b |-> "sun", nd |-> 0, d |-> d, pt |-> pt] : d \in SunDays, pt \in SunTerms}
  /\ res = 0

\* the body's model up to its call of helio: res is lambda at that call
HelioCall ==
  /\ pc = "model"
  /\ res' = IF arg.b = "sun" THEN sunLambda(arg.d, arg.pt) ELSE planetLambda(arg.b, arg.nd)
  /\ pc' = "helio"
  /\ UNCHANGED <<variant, world, pflag, eclipse, eobjs, mflag, oflag, nperiods, interval,
                 period, out, day, objs, ostar, scr, eday, seday, salph, meday, mhp, occ,
                 events, emitted, err, stat, arg>>

SpecHelio == InitHelio /\ [][HelioCall]_vars

\* ------------------------------------------------------------- solstice alone
\* solstice(n) applied to Sun samples whose right ascension starts RampFrom
\* arcminutes from one of the four targets or from -pi and moves RampBy
\* arcminutes a sample step, kept in [-pi, pi] as an arctangent is
RampFrom == {-25, -10, 0, 3}
RampBy == {-7, 0, 2, 3, 7}
RampNear == {-PI, -(PI \div 2), 0, PI \div 2, PI}
Ramp(ra0, rv) == [i \in Slots |-> Obj1(pinormM(ra0 + rv * i, PI), 0, 0, 0)]

InitSol ==
  /\ IdleRun
  /\ variant \in Variants
  /\ world = WQuiet
  /\ pc = "apply"
  /\ objs = [b \in Bodies |-> ZeroPoints]
  /\ ostar = ZeroPoints
  /\ scr = ZeroScr
  /\ eday = 0
  /\ seday = 0
  /\ salph = 0
  /\ meday = 0
  /\ mhp = 0
  /\ occ = ZeroOcc
  /\ \E c \in RampNear, o \in RampFrom, rv \in RampBy, n \in 0..3 :
       arg = [sun |-> Ramp(c + o, rv), n |-> n]
  /\ res = NotFound

ApplySol ==
  /\ pc = "apply"
  /\ res' = solstice(arg.sun, arg.n)
  /\ pc' = "applied"
  /\ UNCHANGED <<variant, world, pflag, eclipse, eobjs, mflag, oflag, nperiods, interval,
                 period, out, day, objs, ostar, scr, eday, seday, salph, meday, mhp, occ,
                 events, emitted, err, stat, arg>>

SpecSol == InitSol /\ [][ApplySol]_vars

\* ------------------------------------------------------------- pinorm alone
\* pinorm (part_000: piNorm) applied to the angles within NormSpan half
\* turns of 0 that are a multiple of a quarter turn, or next to one
NormSpan == 3
NormAngles ==
  {q * (PI \div 2) + e : q \in (-2 * NormSpan)..(2 * NormSpan), e \in {-1, 0, 1}}

InitNorm ==
  /\ IdleRun
  /\ variant \in Variants
  /\ world = WQuiet
  /\ pc = "norm"
  /\ objs = [b \in Bodies |-> ZeroPoints]
  /\ ostar = ZeroPoints
  /\ scr = ZeroScr
  /\ eday = 0
  /\ seday = 0
  /\ salph = 0
  /\ meday = 0
  /\ mhp = 0
  /\ occ = ZeroOcc
  /\ arg \in NormAngles
  /\ res = 0

ApplyNorm ==
  /\ pc = "norm"
  /\ res' = pinorm(arg)
  /\ pc' = "normed"
  /\ UNCHANGED <<variant, world, pflag, eclipse, eobjs, mflag, oflag, nperiods, interval,
                 period, out,
                 day, objs, ostar, scr, eday, seday, salph, meday, mhp, occ, events,
                 emitted, err, stat, arg>>

SpecNorm == InitNorm /\ [][ApplyNorm]_vars

\* ------------------------------------------------------------- claims
\* a pass of search has ended and objs still holds its samples
PassEnded ==
  \/ pc \in {"done", "fatal", "hang"} /\ runsSearch
  \/ pc = "sample" /\ period > 0 /\ runsSearch

IsDark(sun, t) == RLeq(sunel(sun, t), RInt(DarkEl))
IsLight(sun, t) == RLeq(RInt(LightEl), sunel(sun, t))

\* C1: after a pass, no event in the buffer and no line just printed that
\* requires darkness has the Sun, interpolated at its time, above -12 degrees
C1_DarkEventsInDark ==
  PassEnded =>
    /\ \A k \in 1..Len(events) :
         "dark" \in events[k].flag => IsDark(objs["sun"], events[k].tim)
    /\ stat.flushed =>
         \A k \in 1..Len(emitted) :
           "dark" \in emitted[k].flag => IsDark(objs["sun"], emitted[k].tim)

\* C2: every event that a pass appended and that requires sunlight (the
\* transits of Mercury and Venus among them) has the Sun, interpolated at its
\* time, at 0 degrees or above
C2_LightEventsInLight ==
  PassEnded =>
    \A k \in 1..Len(stat.added) :
      "light" \in stat.added[k].flag => IsLight(objs["sun"], stat.added[k].tim)

C2_TransitSeen ==
  /\ PassEnded
  /\ stat.gated > 0
  /\ \E k \in 1..Len(stat.added) : stat.added[k].s[1] = "Transit begins"

\* C3: when event finds the buffer full, it appends nothing, search returns
\* 'too many events' to main, event is not called again in the pass and
\* the buffer is not flushed
C3_FullAborts ==
  stat.full =>
    /\ pc = "fatal"
    /\ err = "too many events"
    /\ Len(events) = nevents
    /\ stat.late = 0
    /\ ~stat.flushed

C3_BufferFilled == stat.full /\ pc = "fatal" /\ stat.calls > 0

\* C4: the buffer never holds more than nevents events
C4_Cap == Len(events) <= nevents

C4_AtCap == Len(events) = nevents

\* C5: the buffer is empty when a pass of search begins
C5_EmptyAtPassStart == pc = "search" => events = <<>>

\* C6: in the lines of a flush every significant event stands before every
\* event that is not, and inside each of the two groups the times do not
\* decrease
C6_Order ==
  \A k \in 1..(Len(emitted) - 1) :
    /\ "signif" \in emitted[k + 1].flag => "signif" \in emitted[k].flag
    /\ ("signif" \in emitted[k].flag) = ("signif" \in emitted[k + 1].flag)
         => RLeq(emitted[k].tim, emitted[k + 1].tim)

C6_LaterSignificantFirst ==
  \E i, j \in 1..Len(emitted) :
    /\ i < j
    /\ "signif" \in emitted[i].flag
    /\ "signif" \notin emitted[j].flag
    /\ RLess(emitted[j].tim, emitted[i].tim)
    /\ \E k \in 1..Len(emitted) :
         k # j /\ "signif" \notin emitted[k].flag
                /\ RCmp(emitted[k].tim, emitted[j].tim) # 0

\* C8: when the medium or the fine pass of occult finds no minimum, search
\* returns its error ('bad 1' or 'bad 2') to main, event is not called
\* again in the pass and the buffer is not flushed
C8_RefineFails ==
  stat.refine # "none" =>
    /\ pc = "fatal"
    /\ err = stat.refine
    /\ stat.late = 0
    /\ ~stat.flushed

C8_NoFineMinimum == stat.refine = "bad 2" /\ pc = "fatal" /\ Len(events) > 0

\* C7: where the elevations cross the threshold once upward and once
\* downward, rise is (i-1) + (el - e[i-1])/(e[i] - e[i-1]) for the pair
\* with e[i-1] <= el < e[i], in [i-1, i), and set the same for the pair with
\* e[i-1] > el >= e[i], in (i-1, i]; where no pair brackets the threshold in
\* the direction, the result is -1
Ups(pt, el) == {i \in 1..(npts + 1) : pt[i - 1].el <= el /\ pt[i].el > el}
Downs(pt, el) == {i \in 1..(npts + 1) : pt[i - 1].el > el /\ pt[i].el <= el}
Between(pt, el, i) ==
  Rat((i - 1) * (pt[i].el - pt[i - 1].el) + (el - pt[i - 1].el),
      pt[i].el - pt[i - 1].el)

C7_RiseSet ==
  pc = "applied" =>
    /\ Cardinality(Ups(arg.pt, arg.el)) = 1 /\ Cardinality(Downs(arg.pt, arg.el)) = 1
         => /\ \A i \in Ups(arg.pt, arg.el) :
                 /\ res.rise = Between(arg.pt, arg.el, i)
                 /\ RLeq(RInt(i - 1), res.rise) /\ RLess(res.rise, RInt(i))
            /\ \A i \in Downs(arg.pt, arg.el) :
                 /\ res.set = Between(arg.pt, arg.el, i)
                 /\ RLess(RInt(i - 1), res.set) /\ RLeq(res.set, RInt(i))
    /\ Ups(arg.pt, arg.el) = {} => res.rise = NotFound
    /\ Downs(arg.pt, arg.el) = {} => res.set = NotFound

\* e[3] = -1, e[4] = 2, el = 0: rise = 3 + 1/3, and the elevations cross the
\* threshold downward once
C7_Example ==
  /\ pc = "applied"
  /\ arg.el = 0 /\ arg.pt[3].el = -1 /\ arg.pt[4].el = 2
  /\ Cardinality(Ups(arg.pt, arg.el)) = 1 /\ Cardinality(Downs(arg.pt, arg.el)) = 1
  /\ res.rise = <<10, 3>>
  /\ res.set # NotFound

\* C9: after any call of occult, a contact time is negative exactly when
\* the contact was not found
C9_NegativeIffNotFound ==
  \A n \in 1..Len(res) : \A c \in 1..5 :
    RLess(res[n].t[c], Zero) <=> ~res[n].found[c]

\* C9 as the code has it: after any call of occult, a contact that was not
\* found holds the sentinel -100, and a contact time that is not negative was
\* found
C9_NotFoundIsSentinel ==
  \A n \in 1..Len(res) : \A c \in 1..5 :
    /\ ~res[n].found[c] => res[n].t[c] = Absent
    /\ ~RLess(res[n].t[c], Zero) => res[n].found[c]

\* a call after one that found all five contacts finds none of its own
C9_SentinelAfterContacts ==
  \E n \in 2..Len(res) :
    /\ \A c \in 1..5 : res[n - 1].found[c] /\ ~RLess(res[n - 1].t[c], Zero)
    /\ \A c \in 1..5 : ~res[n].found[c] /\ res[n].t[c] = Absent

\* a contact was found before the start of the window
C9_FoundBeforeWindow ==
  \E n \in 1..Len(res) : \E c \in 1..5 :
    res[n].found[c] /\ RLess(res[n].t[c], Zero)

\* C10: two successive calls of occult on the same pair and the same
\* samples return the same error and leave the same t1..t5
C10_Idempotent ==
  \A n \in 2..Len(res) :
    res[n].pair = res[n - 1].pair =>
      /\ res[n].err = res[n - 1].err
      /\ res[n].t = res[n - 1].t

\* the pair is called twice in succession, after a call on another pair,
\* and the calls find contacts
C10_Repeated ==
  \E n \in 3..Len(res) :
    /\ res[n].pair = res[n - 1].pair
    /\ res[n - 2].pair # res[n].pair
    /\ res[n].found[1] /\ res[n].found[5]

\* the pair is called twice in succession and both calls fail
C10_RepeatedFailure ==
  \E n \in 2..Len(res) :
    res[n].pair = res[n - 1].pair /\ res[n].err # "nil"

\* the shadow's right ascension and semidiameter derived from the Sun and
\* the Moon of the instant T
ShadowRa(T) == pinorm((Truth(world.body["sun"], T).ra + PI) % (2 * PI))
ShadowSemi(T) == (10183 * MoonHp(T)) \div 10000 - ShadSun
\* the last call of occult was for the shadow and reached the fine pass
ShadowLast ==
  /\ res # <<>>
  /\ res[Len(res)].pair[2] = "shadow"
  /\ res[Len(res)].stage \in {"bad 2", "miss", "contact"}

\* C11: every sample stored for the shadow is derived from the Sun and the
\* Moon of the sample's instant, and when the fine pass of occult has
\* computed the shadow last, the caches are of the frame's instant (seday =
\* eday, meday = eday, salph and mhp those of eday) and the shadow left in
\* the scratch globals is derived from them
C11_ShadowFresh ==
  /\ pc = "call" =>
        \A i \in Slots :
          /\ objs["shadow"][i].ra = ShadowRa(StepT * (day + i))
          /\ objs["shadow"][i].semi2 = ShadowSemi(StepT * (day + i))
  /\ ShadowLast =>
        /\ seday = eday /\ meday = eday
        /\ salph = Truth(world.body["sun"], eday).ra
        /\ mhp = MoonHp(eday)
        /\ scr.ra = ShadowRa(eday)
        /\ scr.semi2 = ShadowSemi(eday)

\* the fine pass computed the shadow after a call for another pair, in a sky
\* where the Sun and the Moon's parallax have changed since the last sample
C11_ShadowAfterOthers ==
  /\ ShadowLast
  /\ Len(res) >= 2
  /\ res[Len(res) - 1].pair # res[Len(res)].pair
  /\ res[Len(res)].stage = "contact"
  /\ salph # objs["sun"][npts + 1].ra
  /\ mhp # MoonHp(StepT * (day + npts + 1))

\* C12: nothing is inherited across bodies: the sample stored for a body
\* (right ascension, declination, semidiameter, azimuth, elevation,
\* magnitude) is the same whichever body was computed before it in the frame
C12_NothingInherited ==
  pc = "framed" => res.after = res.alone

\* a run with the default period: one period of one day, searched
DefaultRun ==
  ~pflag /\ ~eclipse /\ ~oflag /\ nperiods = 1 /\ interval = npts

\* C13: by default every timed event printed has a time offset t with
\* 0 <= t < 12 sample steps: nothing later than 24 hours after the start
C13_WithinDay ==
  (DefaultRun /\ pc = "done") =>
    \A k \in 1..Len(emitted) :
      "ptime" \in emitted[k].flag =>
        RLeq(Zero, emitted[k].tim) /\ RLess(emitted[k].tim, RInt(npts))

\* C14: with -p, with or without -e, only sample 0 of each body is computed
\* and search is never called: no event is buffered and none is printed
C14_PrintsInsteadOfSearching ==
  pflag =>
    /\ pc \notin {"search", "fatal", "hang"}
    /\ stat = ZeroStat
    /\ events = <<>>
    /\ emitted = <<>>
    /\ \A b \in Bodies : \A i \in 1..(npts + 1) : objs[b][i] = ZeroObj1

\* C15: under -e the distance printed in a period is the separation, in
\* seconds of arc, of the samples 0 that the sampling loop of that period
\* wrote for the two bodies named
C15_DistOfSamples ==
  \A k \in 1..Len(out) :
    out[k].kind = "dist" =>
      out[k].d = 60 * dist(objs[out[k].names[1]][0], objs[out[k].names[2]][0])

\* the sampling loop has run at least once
Sampled == pc # "sample" \/ period > 0
Prints(b) == \E k \in 1..Len(out) : out[k].kind = "pos" /\ out[k].names[1] = b

\* C16: the comet is sampled, printed under -p and searched if and only if
\* -m is given, and the other bodies are printed under -p with and without -m
C16_CometIffM ==
  /\ Sampled => ((objs["comet"][0] # ZeroObj1) <=> mflag)
  /\ (Sampled /\ pflag) =>
       /\ Prints("comet") <=> mflag
       /\ \A b \in Bodies \ {"comet"} : Prints(b)
  /\ \A k \in 1..Len(events) : events[k].s[2] = "comet" => mflag
  /\ \A k \in 1..Len(emitted) : emitted[k].s[2] = "comet" => mflag

\* C17: for every angle a, the normalisation returns a value greater than
\* -pi and at most pi that differs from a by a multiple of 2 pi
C17_PinormRange ==
  pc = "normed" =>
    /\ -PI < res /\ res <= PI
    /\ (res - arg) % (2 * PI) = 0

\* the separation of the samples i of the pair pr
PairDist(pr, i) == dist(objs[pr[1]][i], objs[pr[2]][i])
\* no sample of the pair pr is a minimum of the separation
NoCoarseMin(pr) ==
  ~\E i \in 2..(npts + 1) :
     PairDist(pr, i - 1) <= PairDist(pr, i - 2) /\ PairDist(pr, i - 1) <= PairDist(pr, i)
AllAbsent(t) == \A j \in 1..5 : t[j] = Absent

\* C19: a call of occult for a pair whose separation has no minimum among
\* the samples returns nil with the five contact times at the sentinel,
\* whatever the call before left in them
C19_CoarseNone ==
  /\ \A k \in 1..Len(res) :
       NoCoarseMin(res[k].pair) =>
         res[k].err = "nil" /\ ~res[k].hang /\ AllAbsent(res[k].t)
  /\ (res # <<>> /\ NoCoarseMin(res[Len(res)].pair)) => AllAbsent(Times(occ))

\* a call without a minimum came after a call that had left contact times
C19_NoneAfterContacts ==
  \E k \in 2..Len(res) :
    /\ NoCoarseMin(res[k].pair)
    /\ ~AllAbsent(res[k - 1].t)
    /\ res[k - 1].stage = "contact"

\* the right ascension and the elevation that the model of the body b
\* computes when the frame state is that of the instant T
OwnFrame(b, T) ==
  [ra |-> IF b = "shadow" THEN ShadowRa(T) ELSE Truth(world.body[b], T).ra,
   el |-> Truth(world.body[b], T).el]
AtFrame(p, b, T) == p.ra = OwnFrame(b, T).ra /\ p.el = OwnFrame(b, T).el

\* C21: every sample the sampling loop or the re-sampling loop of the fine
\* pass stored was computed with the frame state of its own instant: setime
\* ran for that instant before the body's model did
C21_OwnFrame ==
  /\ pc \in {"fine", "fined"} =>
       \A b \in Bodies : \A i \in Slots : AtFrame(objs[b][i], b, StepT * (day + i))
  /\ pc = "fined" =>
       \A j \in 0..2 :
         /\ AtFrame(res.xo1[j], arg.pair[1], StepT * day + arg.tdi + 2 * j)
         /\ AtFrame(res.xo2[j], arg.pair[2], StepT * day + arg.tdi + 2 * j)

\* the fine pass re-sampled a pair, the shadow among them, at instants that
\* are not instants of the sampling loop, where the bodies are elsewhere
C21_BetweenSamples ==
  /\ pc = "fined"
  /\ arg.tdi % StepT # 0
  /\ arg.pair[2] = "shadow"
  /\ res.xo1[0].ra # res.xo1[2].ra
  /\ res.xo2[0].ra # res.xo2[2].ra
  /\ \A i \in Slots : res.xo1[1] # objs[arg.pair[1]][i]

\* C22: the delta-T a setime call used, in eday and in wlong, is the
\* delta-T of the instant that call was given
C22_DeltaTOfInstant ==
  (pc = "slot" /\ res.i > 0) =>
    /\ res.eday[2] = deltaT(arg, res.eday[1])
    /\ res.wlong = deltaT(arg, res.eday[1])

\* C23: with neither -p nor -e the sampling loop has written, when search is
\* called, every slot 0..npts+1 of every body of the object list, slot i at
\* the instant day + i*deld, with deld a twelfth of a day whatever the
\* length of a period is
C23_AllSlots ==
  (pc = "search" /\ ~pflag /\ ~eclipse) =>
    \A k \in 1..Len(BodyNames) : \A i \in Slots :
      AtFrame(objs[BodyNames[k]][i], BodyNames[k], StepT * (day + i))

\* a later period of a run whose periods are half a day long was sampled,
\* and the Sun is at another elevation in each of the last three slots
C23_HalfDayPeriods ==
  /\ pc = "search"
  /\ ~pflag
  /\ ~eclipse
  /\ period > 0
  /\ interval # npts
  /\ objs["sun"][npts + 1].el # objs["sun"][npts].el
  /\ objs["sun"][npts].el # objs["sun"][npts - 1].el
  /\ objs["sun"][0].el # objs["sun"][1].el

\* C24: when helio runs for a body, the longitude lambda it is handed lies
\* in [0, 2*pi)
C24_LambdaReduced ==
  pc = "helio" => (0 <= res /\ res < 2 * PI)

\* the right ascension solstice(n) looks for, and the right ascension of
\* slot i as it compares it: for n = 0 shifted by pi and wrapped again
SolTarget(n) == IF n = 1 THEN -(PI \div 2) ELSE IF n = 3 THEN PI \div 2 ELSE 0
SolRa(i) ==
  IF arg.n # 0 THEN arg.sun[i].ra
  ELSE IF arg.sun[i].ra - PI < -PI THEN arg.sun[i].ra + PI ELSE arg.sun[i].ra - PI
SolPair(i) == SolRa(i - 1) <= SolTarget(arg.n) /\ SolTarget(arg.n) < SolRa(i)
\* the instant at which the line through the samples i-1 and i is at the target
SolLine(i) ==
  Rat((i - 1) * (SolRa(i) - SolRa(i - 1)) + (SolTarget(arg.n) - SolRa(i - 1)),
      SolRa(i) - SolRa(i - 1))

\* C25: solstice(n) returns a time t >= 0 only if a pair of consecutive
\* samples has ra[i-1] <= target < ra[i] (the right ascension shifted by pi
\* and wrapped for n = 0), t is then the linear interpolation of the crossing
\* and i-1 <= t < i; else it returns -1
C25_Solstice ==
  pc = "applied" =>
    IF Found(res)
    THEN \E i \in 1..(npts + 1) :
           /\ SolPair(i)
           /\ res = SolLine(i)
           /\ RLeq(RInt(i - 1), res)
           /\ RLess(res, RInt(i))
    ELSE res = RInt(-1)

\* the fall equinox was found between two samples, at no sample's instant
C25_FallFound ==
  /\ pc = "applied"
  /\ arg.n = 0
  /\ Found(res)
  /\ res[2] > 1
  /\ RLess(RInt(2), res)

\* the contact times t, those that are set, are in the order
\* t1 <= t2 < t3 < t4 <= t5
InOrder(t) ==
  \A a, b \in 1..5 :
    (a < b /\ t[a] # Absent /\ t[b] # Absent) =>
      IF (a = 1 /\ b = 2) \/ (a = 4 /\ b = 5) THEN RLeq(t[a], t[b]) ELSE RLess(t[a], t[b])

\* C26: after a call of occult that returned, if one of t1, t2, t4, t5 is
\* set then t3 is set, and the times that are set satisfy
\* t1 <= t2 < t3 < t4 <= t5
C26_ContactOrder ==
  /\ \A k \in 1..Len(res) :
       ~res[k].hang =>
         /\ (\E c \in {1, 2, 4, 5} : res[k].t[c] # Absent) => res[k].t[3] # Absent
         /\ InOrder(res[k].t)
  /\ (res # <<>> /\ ~res[Len(res)].hang) => InOrder(Times(occ))

\* a call set all five times, the outer contacts apart from the inner ones
C26_FiveContacts ==
  \E k \in 1..Len(res) :
    /\ ~res[k].hang
    /\ \A c \in 1..5 : res[k].t[c] # Absent
    /\ RLess(res[k].t[1], res[k].t[2])
    /\ RLess(res[k].t[4], res[k].t[5])

\* the sample where the coarse pass of occult stops for the pair pr, or 0
CoarseAt(pr) == coarse(objs[pr[1]], objs[pr[2]], 2)
\* the interpolants of the pair pr give, at the grid points 0, nsub/2 and nsub
\* of the medium pass, the separations of the three samples up to i
Reproduces(pr, i) ==
  \A j \in 0..2 :
    sep(set3pt(objs[pr[1]], i - 2), set3pt(objs[pr[2]], i - 2), j * StepT)
      = SCALE * dist(objs[pr[1]][i - 2 + j], objs[pr[2]][i - 2 + j])

\* C27: no call of occult returns the error "bad 1": where the coarse pass
\* found d[i-1] <= d[i-2] and d[i-1] <= d[i], the interpolants reproduce the
\* three separations and the medium pass finds a minimum among its grid points
C27_NoBad1 ==
  /\ \A k \in 1..Len(res) : res[k].err # "bad 1" /\ res[k].stage # "bad 1"
  /\ pc = "call" =>
       \A pr \in OccPairs : CoarseAt(pr) # 0 => Reproduces(pr, CoarseAt(pr))

\* the medium pass ran for a pair whose coarse minimum is no lower than the
\* sample after it, and one of which passes +-pi among the three samples
C27_MediumRan ==
  /\ \E k \in 1..Len(res) :
       /\ res[k].stage \in {"far", "bad 2", "miss", "contact"}
       /\ dist(objs[res[k].pair[1]][CoarseAt(res[k].pair) - 1],
               objs[res[k].pair[2]][CoarseAt(res[k].pair) - 1])
            = dist(objs[res[k].pair[1]][CoarseAt(res[k].pair)],
                   objs[res[k].pair[2]][CoarseAt(res[k].pair)])
       /\ \E b \in {res[k].pair[1], res[k].pair[2]} :
            Abs(objs[b][CoarseAt(res[k].pair)].ra
                  - objs[b][CoarseAt(res[k].pair) - 2].ra) > PI

\* C28: each of the two contact loops of occult stops: no call runs a
\* contact loop for MaxScan turns without reaching its break
C28_ScansStop ==
  \A k \in 1..Len(res) : ~res[k].hang

\* C29: a call of occult leaves the frame as it found it: the instant of
\* the frame state after the call is the instant before it
C29_FrameKept ==
  [][pc = "call" => eday' = eday]_vars

\* the catalog stars for which stars calls occult: those the Moon's band
\* and the test of the Moon's orbital plane keep
StarCalls ==
  {k \in 1..Len(world.catalog) :
     /\ world.catalog[k].near
     /\ ~offBand(60 * world.catalog[k].alpha, bandLo(objs), bandHi(objs))}

\* C30: after stars has called occult(moon, star) for catalog stars, every
\* slot of the star's samples holds the position computed for the star of
\* the last call
C30_StarSlots ==
  (pc \in {"done", "fatal"} /\ oflag /\ StarCalls # {}) =>
    \E k \in StarCalls : \A i \in Slots :
      /\ ostar[i].ra = pinorm(world.catalog[k].alpha)
      /\ ostar[i].el = starEl(world.catalog[k], eday)
      /\ ostar[i].semi2 = 0

====
